---------------------------- MODULE Spec2Model ----------------------------
(***************************************************************************)
(* A model of the refi-qda library: the export pipeline (exportQDPX,       *)
(* processSourcesForExport, updateProjectSourcePaths, createQDPXFile), the *)
(* export validator (validateProjectForExport) and the document converter  *)
(* (prepareProjectForXml / convertXmlToProject).                           *)
(*                                                                         *)
(* Conventions.                                                            *)
(*  - A JavaScript object is a record; an optional field that is undefined *)
(*    is a field that is not in the record's DOMAIN.                       *)
(*  - A source address or a filesystem path is a sequence of tokens: the   *)
(*    three scheme prefixes, the separator "/", ".." and file or directory *)
(*    names.  Concatenation of strings is concatenation of sequences.      *)
(*  - Every other string (names, GUIDs, text content) is a TLA+ string;    *)
(*    the empty string is "".                                              *)
(*  - The host is POSIX: path.sep is "/".                                  *)
(***************************************************************************)
EXTENDS Integers, Sequences, FiniteSets, TLC

VARIABLES
    heap,             \* object store: reference -> Project value
    projectRef,       \* the reference the caller passed to exportQDPX
    copyRef,          \* the reference exportQDPX works on (projectCopy)
    original,         \* the caller's Project as it was before the call
    options,          \* the ExportOptions the caller passed
    exportOptions,    \* the options with defaults applied (options.ts:106)
    fsFiles,          \* filesystem: existing file (segments) -> size
    outFile,          \* what is stored at outputPath
    pc,               \* position of the exportQDPX call
    idx,              \* index of the next source in processing order
    warnings,         \* warnings accumulated by the call
    externalSources,  \* externalSources accumulated by the call
    sourceFiles,      \* file set: sequence of [name, from] entries
    sourceInfoList,   \* SourceInfo records pushed so far
    uuidCount,        \* number of identifiers uuidv4 has produced
    qdeContent,       \* the manifest tree handed to the container writer
    result,           \* outcome of the call
    done,             \* pipeline stages completed so far
    missing,          \* history: the external sources whose stat failed
    valInput,         \* validator / converter specification: the input
    valOutput         \* validator / converter specification: the output

vars == <<heap, projectRef, copyRef, original, options, exportOptions, fsFiles,
          outFile, pc, idx, warnings, externalSources, sourceFiles,
          sourceInfoList, uuidCount, qdeContent, result, done, missing,
          valInput, valOutput>>

exportVars == <<heap, projectRef, copyRef, original, options, exportOptions,
                fsFiles, outFile, pc, idx, warnings, externalSources,
                sourceFiles, sourceInfoList, uuidCount, qdeContent, result,
                done, missing>>

-----------------------------------------------------------------------------
(* Bounds of the model.                                                    *)

MaxSources == 2
MaxFileSize == 2
MaxConfiguredSize == 1

-----------------------------------------------------------------------------
(* Records as JavaScript objects.                                          *)

Has(r, f) == f \in DOMAIN r

SetField(r, f, v) == [x \in (DOMAIN r) \cup {f} |-> IF x = f THEN v ELSE r[x]]

\* a string-valued field that is present and not the empty string
TruthyStr(r, f) == Has(r, f) /\ r[f] # ""

\* an address-valued field that is present and not the empty string
TruthyPath(r, f) == Has(r, f) /\ r[f] # <<>>

RECURSIVE ConcatAll(_)
ConcatAll(ss) == IF ss = <<>> THEN <<>> ELSE Head(ss) \o ConcatAll(Tail(ss))

\* array.forEach / array.map with the element and its 1-based position
MapIdx(s, F(_, _)) == [i \in 1..Len(s) |-> F(s[i], i)]
FlatMapIdx(s, F(_, _)) == ConcatAll(MapIdx(s, F))

Last(s) == s[Len(s)]
Range(s) == {s[i] : i \in 1..Len(s)}

\* the text `[${index}]` prints for the element at 1-based position i
IdxStr(i) == <<"0", "1", "2", "3", "4", "5">>[i]

-----------------------------------------------------------------------------
(* Strings of addresses and paths.                                         *)

SchemeInternal == "internal://"
SchemeRelative == "relative://"
SchemeAbsolute == "absolute://"
Sep == "/"
DotDot == ".."
Schemes == {SchemeInternal, SchemeRelative, SchemeAbsolute}

\* String.prototype.startsWith for a prefix that is one token
startsWith(s, prefix) == Len(s) >= 1 /\ s[1] = prefix

\* the number of characters of a token
TokLen(t) ==
    CASE t \in Schemes -> 11
      [] t = Sep -> 1
      [] t = DotDot -> 2
      [] t = "base" -> 4
      [] t = "other" -> 5
      [] t = "cwd" -> 3
      [] t = "out" -> 3
      [] t = "a.mp4" -> 5
      [] t = "b.pdf" -> 5
      [] t = "f.txt" -> 5
      [] t = "internal:" -> 9
      [] OTHER -> 6

\* String.prototype.substring(n): drops the first n characters; a token cut
\* in the middle leaves the token "~" standing for its remaining characters
RECURSIVE substring(_, _)
substring(s, n) ==
    IF n = 0 \/ s = <<>> THEN s
    ELSE IF TokLen(s[1]) <= n THEN substring(Tail(s), n - TokLen(s[1]))
    ELSE <<"~">> \o Tail(s)

\* the segments of a path: its tokens between separators
Segs(s) == SelectSeq(s, LAMBDA t : t # Sep)

IsAbsolutePath(s) == startsWith(s, Sep)

\* resolution of ".." segments, left to right
RECURSIVE NormSegs(_, _)
NormSegs(acc, rest) ==
    IF rest = <<>> THEN acc
    ELSE IF Head(rest) = DotDot
         THEN NormSegs(IF acc = <<>> THEN acc ELSE SubSeq(acc, 1, Len(acc) - 1),
                       Tail(rest))
         ELSE NormSegs(Append(acc, Head(rest)), Tail(rest))

\* the text of the absolute path with the given segments
RenderAbs(segs) ==
    IF segs = <<>> THEN <<Sep>>
    ELSE ConcatAll([i \in 1..Len(segs) |-> <<Sep, segs[i]>>])

\* segments joined by "/" with no leading separator
JoinRel(segs) ==
    IF segs = <<>> THEN <<>>
    ELSE <<segs[1]>> \o ConcatAll([i \in 1..(Len(segs) - 1) |-> <<Sep, segs[i + 1]>>])

\* process.cwd()
Cwd == <<Sep, "cwd">>

\* the file a path names: absolute segments, relative paths against cwd
FsKey(s) ==
    IF IsAbsolutePath(s) THEN NormSegs(<<>>, Segs(s))
    ELSE NormSegs(<<>>, Segs(Cwd) \o Segs(s))

\* path.resolve(base, p)
pathResolve(base, p) ==
    IF IsAbsolutePath(p) THEN RenderAbs(NormSegs(<<>>, Segs(p)))
    ELSE RenderAbs(NormSegs(FsKey(base), Segs(p)))

RECURSIVE CommonPrefixLen(_, _)
CommonPrefixLen(a, b) ==
    IF a = <<>> \/ b = <<>> \/ Head(a) # Head(b) THEN 0
    ELSE 1 + CommonPrefixLen(Tail(a), Tail(b))

\* path.relative(from, to)
pathRelative(from, to) ==
    LET f == FsKey(from)
        t == FsKey(to)
        n == CommonPrefixLen(f, t)
    IN JoinRel([i \in 1..(Len(f) - n) |-> DotDot] \o SubSeq(t, n + 1, Len(t)))

\* path.basename(p)
pathBasename(p) == IF Segs(p) = <<>> THEN <<>> ELSE <<Last(Segs(p))>>

\* path.dirname(p)
pathDirname(p) ==
    LET s == Segs(p)
    IN IF Len(s) <= 1 THEN (IF IsAbsolutePath(p) THEN <<Sep>> ELSE <<".">>)
       ELSE IF IsAbsolutePath(p) THEN RenderAbs(SubSeq(s, 1, Len(s) - 1))
       ELSE JoinRel(SubSeq(s, 1, Len(s) - 1))

\* path.extname(name): the extension of the last segment, "" when it has none
pathExtname(p) ==
    IF p = <<>> THEN <<>>
    ELSE CASE Last(p) = "a.mp4" -> <<".mp4">>
           [] Last(p) = "b.pdf" -> <<".pdf">>
           [] Last(p) = "f.txt" -> <<".txt">>
           [] Last(p) \in {".mp4", ".pdf", ".txt"} -> <<Last(p)>>
           [] OTHER -> <<>>

-----------------------------------------------------------------------------
(* GUID text.  A GUID is a TLA+ string; the sets below are the classes of   *)
(* text the validator's pattern tells apart.                                *)

CanonicalGuids ==
    {"g01", "g02", "g03", "g04", "g05", "g06", "g07", "g08", "g09", "g10",
     "g11", "g12", "g13", "g14", "g15", "g16", "g17", "g18", "g19", "g20",
     "g21", "g22", "g23", "g24", "g25", "g26", "g27", "g28", "g29", "g30",
     "g31", "g32", "g99"}
BracedGuids == {"{g01}", "{g02}"}
MalformedGuids == {"not-a-guid"}

\* guidPattern.test(guid): 8-4-4-4-12 hex groups, anchored, no braces
guidPatternTest(guid) == guid \in CanonicalGuids

\* e.guid, with undefined read as the empty string (both are falsy)
GuidOf(e) == IF Has(e, "guid") THEN e.guid ELSE ""

\* a null entry of a list
Null == [isNull |-> TRUE]
IsNull(e) == Has(e, "isNull")
HasNullEntry(list) == \E i \in 1..Len(list) : IsNull(list[i])

\* obj[f] when it is a list, the empty list when the field is undefined
ListOf(obj, f) == IF Has(obj, f) THEN obj[f] ELSE <<>>

Issue(kind, context, guid, other) ==
    [kind |-> kind, context |-> context, guid |-> guid, other |-> other]

Visit(guid, context) == [guid |-> guid, context |-> context]

SourceKinds == <<"TextSource", "PictureSource", "PDFSource", "AudioSource", "VideoSource">>

SelectionField(type) ==
    CASE type = "TextSource" -> "PlainTextSelection"
      [] type = "PictureSource" -> "PictureSelection"
      [] type = "PDFSource" -> "PDFSelection"
      [] type = "AudioSource" -> "AudioSelection"
      [] type = "VideoSource" -> "VideoSelection"

HasTranscripts(type) == type \in {"AudioSource", "VideoSource"}

\* project.Sources[type] when Sources and the list are present
SourcesOf(project, type) ==
    IF Has(project, "Sources") /\ Has(project.Sources, type)
    THEN project.Sources[type] ELSE <<>>

-----------------------------------------------------------------------------
(* validateProjectGUIDs (validators.ts:53-241): the calls of checkGuid in   *)
(* traversal order, then checkGuid applied to each.                         *)

UsersGuidVisits(project) ==
    IF Has(project, "Users")
    THEN MapIdx(project.Users.User,
                LAMBDA user, i : Visit(GuidOf(user), <<"Users", "User", IdxStr(i)>>))
    ELSE <<>>

RECURSIVE checkCodes(_, _)
checkCodes(codes, path) ==
    ConcatAll([i \in 1..Len(codes) |->
        <<Visit(GuidOf(codes[i]), path \o <<IdxStr(i)>>)>>
        \o (IF Has(codes[i], "Code")
            THEN checkCodes(codes[i].Code, path \o <<IdxStr(i), "Code">>)
            ELSE <<>>)])

CodeBookGuidVisits(project) ==
    IF Has(project, "CodeBook") /\ Has(project.CodeBook, "Codes")
       /\ Has(project.CodeBook.Codes, "Code")
    THEN checkCodes(project.CodeBook.Codes.Code, <<"CodeBook", "Codes", "Code">>)
    ELSE <<>>

\* a container with one list of entities that own only their own GUID
FlatGuidVisits(project, container, field) ==
    IF Has(project, container) /\ Has(project[container], field)
    THEN MapIdx(project[container][field],
                LAMBDA e, i : Visit(GuidOf(e), <<container, field, IdxStr(i)>>))
    ELSE <<>>

CodingGuidVisits(owner, path) ==
    MapIdx(ListOf(owner, "Coding"),
           LAMBDA coding, c : Visit(GuidOf(coding), path \o <<"Coding", IdxStr(c)>>))

checkSourceSelections(source, path, selectionType) ==
    FlatMapIdx(ListOf(source, selectionType),
               LAMBDA selection, s :
                   <<Visit(GuidOf(selection), path \o <<selectionType, IdxStr(s)>>)>>
                   \o CodingGuidVisits(selection, path \o <<selectionType, IdxStr(s)>>))
    \o CodingGuidVisits(source, path)

checkTranscripts(source, path) ==
    FlatMapIdx(ListOf(source, "Transcript"),
               LAMBDA transcript, t :
                   LET tp == path \o <<"Transcript", IdxStr(t)>>
                   IN <<Visit(GuidOf(transcript), tp)>>
                      \o MapIdx(ListOf(transcript, "SyncPoint"),
                                LAMBDA sp, k : Visit(GuidOf(sp), tp \o <<"SyncPoint", IdxStr(k)>>))
                      \o MapIdx(ListOf(transcript, "TranscriptSelection"),
                                LAMBDA sel, k :
                                    Visit(GuidOf(sel), tp \o <<"TranscriptSelection", IdxStr(k)>>)))

SourceGuidVisits(project, type) ==
    FlatMapIdx(SourcesOf(project, type),
               LAMBDA source, i :
                   LET path == <<"Sources", type, IdxStr(i)>>
                   IN <<Visit(GuidOf(source), path)>>
                      \o checkSourceSelections(source, path, SelectionField(type))
                      \o (IF HasTranscripts(type) THEN checkTranscripts(source, path) ELSE <<>>))

GraphGuidVisits(project) ==
    IF Has(project, "Graphs") /\ Has(project.Graphs, "Graph")
    THEN FlatMapIdx(project.Graphs.Graph,
                    LAMBDA graph, i :
                        LET path == <<"Graphs", "Graph", IdxStr(i)>>
                        IN <<Visit(GuidOf(graph), path)>>
                           \o MapIdx(ListOf(graph, "Vertex"),
                                     LAMBDA v, k : Visit(GuidOf(v), path \o <<"Vertex", IdxStr(k)>>))
                           \o MapIdx(ListOf(graph, "Edge"),
                                     LAMBDA e, k : Visit(GuidOf(e), path \o <<"Edge", IdxStr(k)>>)))
    ELSE <<>>

\* every call of checkGuid, in the order validateProjectGUIDs makes them
GuidVisits(project) ==
    UsersGuidVisits(project)
    \o CodeBookGuidVisits(project)
    \o FlatGuidVisits(project, "Variables", "Variable")
    \o FlatGuidVisits(project, "Cases", "Case")
    \o SourceGuidVisits(project, "TextSource")
    \o SourceGuidVisits(project, "PictureSource")
    \o SourceGuidVisits(project, "PDFSource")
    \o SourceGuidVisits(project, "AudioSource")
    \o SourceGuidVisits(project, "VideoSource")
    \o FlatGuidVisits(project, "Sets", "Set")
    \o GraphGuidVisits(project)
    \o FlatGuidVisits(project, "Links", "Link")

\* checkGuid(guid, context) on the state [errors, guidMap]
checkGuid(st, v) ==
    IF v.guid = ""
    THEN [st EXCEPT !.errors = Append(@, Issue("MissingGuid", v.context, "", <<>>))]
    ELSE IF ~guidPatternTest(v.guid)
    THEN [st EXCEPT !.errors = Append(@, Issue("InvalidGuidFormat", v.context, v.guid, <<>>))]
    ELSE IF v.guid \in DOMAIN st.guidMap
    THEN [st EXCEPT !.errors =
              Append(@, Issue("DuplicateGuid", v.context, v.guid, st.guidMap[v.guid]))]
    ELSE [st EXCEPT !.guidMap = SetField(@, v.guid, v.context)]

RECURSIVE checkGuidAll(_, _)
checkGuidAll(visits, st) ==
    IF visits = <<>> THEN st
    ELSE checkGuidAll(Tail(visits), checkGuid(st, Head(visits)))

\* the lists validateProjectGUIDs calls forEach on, element by element
TopLevelLists(project) ==
    {project[c][f] : <<c, f>> \in {x \in {<<"Variables", "Variable">>, <<"Cases", "Case">>,
                                          <<"Sets", "Set">>, <<"Graphs", "Graph">>,
                                          <<"Links", "Link">>} :
                                     Has(project, x[1]) /\ Has(project[x[1]], x[2])}}
    \cup {SourcesOf(project, SourceKinds[k]) : k \in 1..5}
    \cup (IF Has(project, "CodeBook") /\ Has(project.CodeBook, "Codes")
             /\ Has(project.CodeBook.Codes, "Code")
          THEN {project.CodeBook.Codes.Code} ELSE {})

\* validateProjectGUIDs raises a TypeError: Users without a User list
\* (validators.ts:79), or a null entry whose guid is read
validateProjectGUIDsThrows(project) ==
    \/ Has(project, "Users")
       /\ (~Has(project.Users, "User") \/ HasNullEntry(project.Users.User))
    \/ \E list \in TopLevelLists(project) : HasNullEntry(list)

validateProjectGUIDs(project) ==
    checkGuidAll(GuidVisits(project), [errors |-> <<>>, guidMap |-> <<>>]).errors

-----------------------------------------------------------------------------
(* validateProjectSources (validators.ts:248-352).                          *)

\* hasTextSourceProperties / hasTranscriptProperties: the `in` operator
hasTextProperties(obj) == Has(obj, "PlainTextContent") \/ Has(obj, "plainTextPath")

ContentErrors(obj, context) ==
    IF hasTextProperties(obj)
    THEN (IF TruthyStr(obj, "PlainTextContent") /\ TruthyStr(obj, "plainTextPath")
          THEN <<Issue("BothContentAndPath", context, "", <<>>)>> ELSE <<>>)
         \o (IF ~TruthyStr(obj, "PlainTextContent") /\ ~TruthyStr(obj, "plainTextPath")
             THEN <<Issue("NeitherContentNorPath", context, "", <<>>)>> ELSE <<>>)
    ELSE <<>>

MissingPathErrors(source, context) ==
    IF ~TruthyPath(source, "path")
    THEN <<Issue("MissingPath", context, "", <<>>)>> ELSE <<>>

validateTextSource(source, index) ==
    LET context == <<"Sources", "TextSource", IdxStr(index)>>
    IN MissingPathErrors(source, context) \o ContentErrors(source, context)

validateNonTextSource(source, type, index) ==
    MissingPathErrors(source, <<"Sources", type, IdxStr(index)>>)

validateTranscript(source, type, index) ==
    FlatMapIdx(ListOf(source, "Transcript"),
               LAMBDA transcript, t :
                   ContentErrors(transcript,
                                 <<"Sources", type, IdxStr(index), "Transcript", IdxStr(t)>>))

validateProjectSources(project) ==
    FlatMapIdx(SourcesOf(project, "TextSource"),
               LAMBDA source, i : validateTextSource(source, i))
    \o FlatMapIdx(SourcesOf(project, "PictureSource"),
                  LAMBDA source, i : validateNonTextSource(source, "PictureSource", i))
    \o FlatMapIdx(SourcesOf(project, "PDFSource"),
                  LAMBDA source, i : validateNonTextSource(source, "PDFSource", i))
    \o FlatMapIdx(SourcesOf(project, "AudioSource"),
                  LAMBDA source, i : validateNonTextSource(source, "AudioSource", i)
                                     \o validateTranscript(source, "AudioSource", i))
    \o FlatMapIdx(SourcesOf(project, "VideoSource"),
                  LAMBDA source, i : validateNonTextSource(source, "VideoSource", i)
                                     \o validateTranscript(source, "VideoSource", i))

-----------------------------------------------------------------------------
(* validateProjectReferences (validators.ts:359-734).                       *)

\* the fields of the schema that hold lists of objects, and single objects
ListFields ==
    {"User", "Code", "Variable", "Case", "TextSource", "PictureSource", "PDFSource",
     "AudioSource", "VideoSource", "Note", "Link", "Set", "Graph", "Vertex", "Edge",
     "PlainTextSelection", "PictureSelection", "PDFSelection", "AudioSelection",
     "VideoSelection", "Transcript", "SyncPoint", "TranscriptSelection", "Coding",
     "VariableValue"}
ObjectFields ==
    {"Users", "CodeBook", "Codes", "Variables", "Cases", "Sources", "Notes", "Links",
     "Sets", "Graphs", "TextDescription", "Representation"}

\* addGuids (validators.ts:366-387): the guid of every object reachable from
\* obj through arrays and nested objects; null entries are skipped
RECURSIVE addGuids(_)
addGuids(obj) ==
    (IF TruthyStr(obj, "guid") THEN {obj.guid} ELSE {})
    \cup UNION {UNION {addGuids(obj[f][i]) : i \in {k \in 1..Len(obj[f]) : ~IsNull(obj[f][k])}} :
                f \in ListFields \cap DOMAIN obj}
    \cup UNION {addGuids(obj[f]) : f \in ObjectFields \cap DOMAIN obj}

\* obj.targetGUID, undefined read as the empty string
TargetOf(ref) == IF Has(ref, "targetGUID") THEN ref.targetGUID ELSE ""

\* checkNoteRefs / checkCodeRefs / checkSourceRefs / checkSelectionRefs
checkRefList(owner, field, context) ==
    MapIdx(ListOf(owner, field),
           LAMBDA ref, i : Visit(TargetOf(ref), context \o <<field, IdxStr(i), "targetGUID">>))

\* checkCodeRefs([coding.CodeRef], ...)
checkCodingRefs(owner, context) ==
    FlatMapIdx(ListOf(owner, "Coding"),
               LAMBDA coding, c :
                   LET cp == context \o <<"Coding", IdxStr(c)>>
                   IN (IF Has(coding, "CodeRef")
                       THEN <<Visit(TargetOf(coding.CodeRef), cp \o <<"CodeRef", "0", "targetGUID">>)>>
                       ELSE <<>>)
                      \o checkRefList(coding, "NoteRef", cp))

\* checkVariableRefs for each VariableValue of owner
checkVariableValueRefs(owner, context) ==
    FlatMapIdx(ListOf(owner, "VariableValue"),
               LAMBDA value, v :
                   IF Has(value, "VariableRef")
                   THEN <<Visit(TargetOf(value.VariableRef),
                                context \o <<"VariableValue", IdxStr(v), "VariableRef", "targetGUID">>)>>
                   ELSE <<>>)

\* a plain identifier field that is checked only when it is truthy
checkOptionalGuidField(owner, field, context) ==
    IF TruthyStr(owner, field)
    THEN <<Visit(owner[field], context \o <<field>>)>> ELSE <<>>

RECURSIVE checkCodeNoteRefs(_, _)
checkCodeNoteRefs(codes, path) ==
    ConcatAll([i \in 1..Len(codes) |->
        checkRefList(codes[i], "NoteRef", path \o <<IdxStr(i)>>)
        \o (IF Has(codes[i], "Code")
            THEN checkCodeNoteRefs(codes[i].Code, path \o <<IdxStr(i), "Code">>)
            ELSE <<>>)])

CodeBookRefVisits(project) ==
    IF Has(project, "CodeBook") /\ Has(project.CodeBook, "Codes")
       /\ Has(project.CodeBook.Codes, "Code")
    THEN checkCodeNoteRefs(project.CodeBook.Codes.Code, <<"project", "CodeBook", "Codes", "Code">>)
    ELSE <<>>

CaseRefVisits(project) ==
    IF Has(project, "Cases") /\ Has(project.Cases, "Case")
    THEN FlatMapIdx(project.Cases.Case,
                    LAMBDA caseItem, i :
                        LET casePath == <<"project", "Cases", "Case", IdxStr(i)>>
                        IN checkRefList(caseItem, "CodeRef", casePath)
                           \o checkVariableValueRefs(caseItem, casePath)
                           \o checkRefList(caseItem, "SourceRef", casePath)
                           \o checkRefList(caseItem, "SelectionRef", casePath))
    ELSE <<>>

checkSourceReferences(source, sourcePath) ==
    checkRefList(source, "NoteRef", sourcePath)
    \o checkCodingRefs(source, sourcePath)
    \o checkVariableValueRefs(source, sourcePath)

checkSelectionReferences(source, sourcePath, selectionType) ==
    FlatMapIdx(ListOf(source, selectionType),
               LAMBDA selection, s :
                   LET selectionPath == sourcePath \o <<selectionType, IdxStr(s)>>
                   IN checkRefList(selection, "NoteRef", selectionPath)
                      \o checkCodingRefs(selection, selectionPath))

checkTranscriptReferences(source, sourcePath) ==
    FlatMapIdx(ListOf(source, "Transcript"),
               LAMBDA transcript, t :
                   LET transcriptPath == sourcePath \o <<"Transcript", IdxStr(t)>>
                   IN checkRefList(transcript, "NoteRef", transcriptPath)
                      \o FlatMapIdx(ListOf(transcript, "TranscriptSelection"),
                                    LAMBDA selection, s :
                                        LET selectionPath ==
                                                transcriptPath \o <<"TranscriptSelection", IdxStr(s)>>
                                        IN checkOptionalGuidField(selection, "fromSyncPoint", selectionPath)
                                           \o checkOptionalGuidField(selection, "toSyncPoint", selectionPath)
                                           \o checkRefList(selection, "NoteRef", selectionPath)
                                           \o checkCodingRefs(selection, selectionPath)))

SourceRefVisits(project, type) ==
    FlatMapIdx(SourcesOf(project, type),
               LAMBDA source, i :
                   LET sourcePath == <<"project", "Sources", type, IdxStr(i)>>
                   IN checkSourceReferences(source, sourcePath)
                      \o checkSelectionReferences(source, sourcePath, SelectionField(type))
                      \o (IF HasTranscripts(type)
                          THEN checkTranscriptReferences(source, sourcePath) ELSE <<>>))

SetRefVisits(project) ==
    IF Has(project, "Sets") /\ Has(project.Sets, "Set")
    THEN FlatMapIdx(project.Sets.Set,
                    LAMBDA set, i :
                        LET setPath == <<"project", "Sets", "Set", IdxStr(i)>>
                        IN checkRefList(set, "MemberCode", setPath)
                           \o checkRefList(set, "MemberSource", setPath)
                           \o checkRefList(set, "MemberNote", setPath))
    ELSE <<>>

LinkRefVisits(project) ==
    IF Has(project, "Links") /\ Has(project.Links, "Link")
    THEN FlatMapIdx(project.Links.Link,
                    LAMBDA link, i :
                        LET linkPath == <<"project", "Links", "Link", IdxStr(i)>>
                        IN checkOptionalGuidField(link, "originGUID", linkPath)
                           \o checkOptionalGuidField(link, "targetGUID", linkPath)
                           \o checkRefList(link, "NoteRef", linkPath))
    ELSE <<>>

GraphRefVisits(project) ==
    IF Has(project, "Graphs") /\ Has(project.Graphs, "Graph")
    THEN FlatMapIdx(project.Graphs.Graph,
                    LAMBDA graph, i :
                        LET graphPath == <<"project", "Graphs", "Graph", IdxStr(i)>>
                        IN FlatMapIdx(ListOf(graph, "Vertex"),
                                      LAMBDA vertex, k :
                                          checkOptionalGuidField(vertex, "representedGUID",
                                              graphPath \o <<"Vertex", IdxStr(k)>>))
                           \o FlatMapIdx(ListOf(graph, "Edge"),
                                         LAMBDA edge, k :
                                             LET edgePath == graphPath \o <<"Edge", IdxStr(k)>>
                                             IN checkOptionalGuidField(edge, "representedGUID", edgePath)
                                                \o checkOptionalGuidField(edge, "sourceVertex", edgePath)
                                                \o checkOptionalGuidField(edge, "targetVertex", edgePath)))
    ELSE <<>>

\* every call of checkReference, in the order validateProjectReferences makes them
RefVisits(project) ==
    checkRefList(project, "NoteRef", <<"project">>)
    \o CodeBookRefVisits(project)
    \o CaseRefVisits(project)
    \o SourceRefVisits(project, "TextSource")
    \o SourceRefVisits(project, "PictureSource")
    \o SourceRefVisits(project, "PDFSource")
    \o SourceRefVisits(project, "AudioSource")
    \o SourceRefVisits(project, "VideoSource")
    \o SetRefVisits(project)
    \o LinkRefVisits(project)
    \o GraphRefVisits(project)

\* checkReference(guid, context) against the collected set of GUIDs
checkReference(guids, v) ==
    IF v.guid = "" THEN <<Issue("MissingReference", v.context, "", <<>>)>>
    ELSE IF v.guid \notin guids THEN <<Issue("InvalidReference", v.context, v.guid, <<>>)>>
    ELSE <<>>

validateProjectReferences(project) ==
    LET guids == addGuids(project)
    IN FlatMapIdx(RefVisits(project), LAMBDA v, i : checkReference(guids, v))

-----------------------------------------------------------------------------
(* The xml2js object tree.  A node is a record: "$" holds its attributes,   *)
(* every other field a child, tagged with its JavaScript shape.  Numbers    *)
(* of the object model are records [n |-> k]; NaN is [nan |-> TRUE].        *)

AttrKey == "$"
Node(attrs) == [x \in {AttrKey} |-> attrs]
XList(items) == [t |-> "list", items |-> items]
XElem(node) == [t |-> "elem", node |-> node]
XText(v) == [t |-> "text", value |-> v]
XNum(v) == [t |-> "num", value |-> v]
XBool(v) == [t |-> "bool", value |-> v]

Num(k) == [n |-> k]
NaN == [nan |-> TRUE]

NoFields == [x \in {} |-> TRUE]
OptF(cond, f, v) == IF cond THEN [x \in {f} |-> v] ELSE NoFields

\* the fields of obj among names that are defined
Pick(obj, names) == [f \in names \cap DOMAIN obj |-> obj[f]]

PathFields == {"path", "currentPath", "basePath"}

\* JavaScript truthiness of a string-valued field: defined and not ""
Truthy(obj, f) ==
    Has(obj, f) /\ (IF f \in PathFields THEN obj[f] # <<>> ELSE obj[f] # "")

\* attributes written unconditionally (`a: obj.a`) and those written under `if (obj[a])`
Attrs(obj, always, optional) ==
    [a \in (always \cap DOMAIN obj) \cup {o \in optional : Truthy(obj, o)} |-> obj[a]]

NonEmptyList(obj, f) == Has(obj, f) /\ obj[f] # <<>>

\* `if (x.Description) xml.Description = x.Description`
DescriptionXml(obj) ==
    OptF(Truthy(obj, "Description"), "Description",
         XText(IF Has(obj, "Description") THEN obj.Description ELSE ""))

\* `if (x.F && x.F.length > 0) xml.F = x.F.map(ref => ({$: {targetGUID: ref.targetGUID}}))`
RefsXml(obj, f) ==
    OptF(NonEmptyList(obj, f), f,
         XList([i \in 1..Len(ListOf(obj, f)) |-> Node(Pick(obj[f][i], {"targetGUID"}))]))

RefXml(ref) == XElem(Node(Pick(ref, {"targetGUID"})))

\* `if (x.F && x.F.length > 0) xml.F = prepare(x.F)`
ListXml(obj, f, prepare(_)) ==
    OptF(NonEmptyList(obj, f), f,
         XList([i \in 1..Len(ListOf(obj, f)) |-> prepare(obj[f][i])]))

ProvenanceAttrs == {"creatingUser", "creationDateTime", "modifyingUser", "modifiedDateTime"}

-----------------------------------------------------------------------------
(* xml-builder.ts (src/unnamed/part_003): prepare...ForXml.                 *)

RECURSIVE prepareCodeForXml(_)
prepareCodeForXml(code) ==
    Node(Attrs(code, {"guid", "name", "isCodable"}, {"color"}))
    @@ DescriptionXml(code)
    @@ RefsXml(code, "NoteRef")
    @@ OptF(NonEmptyList(code, "Code"), "Code",
            XList([i \in 1..Len(ListOf(code, "Code")) |-> prepareCodeForXml(code.Code[i])]))

prepareVariableForXml(variable) ==
    Node(Attrs(variable, {"guid", "name", "typeOfVariable"}, {})) @@ DescriptionXml(variable)

\* the first defined value field, in the order of the else-if chain
prepareVariableValueForXml(value) ==
    [VariableRef |-> RefXml(value.VariableRef)]
    @@ (IF Has(value, "TextValue") THEN [TextValue |-> XText(value.TextValue)]
        ELSE IF Has(value, "BooleanValue") THEN [BooleanValue |-> XBool(value.BooleanValue)]
        ELSE IF Has(value, "IntegerValue") THEN [IntegerValue |-> XNum(value.IntegerValue)]
        ELSE IF Has(value, "FloatValue") THEN [FloatValue |-> XNum(value.FloatValue)]
        ELSE IF Has(value, "DateValue") THEN [DateValue |-> XText(value.DateValue)]
        ELSE IF Has(value, "DateTimeValue") THEN [DateTimeValue |-> XText(value.DateTimeValue)]
        ELSE NoFields)

prepareCaseForXml(caseItem) ==
    Node(Attrs(caseItem, {"guid", "name"}, {}))
    @@ DescriptionXml(caseItem)
    @@ RefsXml(caseItem, "CodeRef")
    @@ ListXml(caseItem, "VariableValue", prepareVariableValueForXml)
    @@ RefsXml(caseItem, "SourceRef")
    @@ RefsXml(caseItem, "SelectionRef")

prepareCodingForXml(coding) ==
    Node(Attrs(coding, {"guid"}, {"creatingUser", "creationDateTime"}))
    @@ [CodeRef |-> RefXml(coding.CodeRef)]
    @@ RefsXml(coding, "NoteRef")

\* the selections of plain text, pictures, audio and video differ in their
\* numeric attributes only
prepareSelectionForXml(selection, numeric) ==
    Node(Attrs(selection, {"guid"} \cup numeric, {"name"} \cup ProvenanceAttrs))
    @@ DescriptionXml(selection)
    @@ ListXml(selection, "Coding", prepareCodingForXml)
    @@ RefsXml(selection, "NoteRef")

preparePlainTextSelectionForXml(selection) ==
    prepareSelectionForXml(selection, {"startPosition", "endPosition"})
preparePictureSelectionForXml(selection) ==
    prepareSelectionForXml(selection, {"firstX", "firstY", "secondX", "secondY"})
prepareTimeSelectionForXml(selection) ==
    prepareSelectionForXml(selection, {"begin", "end"})

TextSourceAttrs == {"name", "richTextPath", "plainTextPath"} \cup ProvenanceAttrs
FileSourceAttrs == {"name", "path", "currentPath"} \cup ProvenanceAttrs

\* prepareTextSourcesForXml, one source: path and currentPath are not among
\* the attributes it writes (part_003:358-366)
prepareTextSourceForXml(source) ==
    Node(Attrs(source, {"guid"}, TextSourceAttrs))
    @@ DescriptionXml(source)
    @@ OptF(Truthy(source, "PlainTextContent"), "PlainTextContent",
            XText(IF Has(source, "PlainTextContent") THEN source.PlainTextContent ELSE ""))
    @@ ListXml(source, "PlainTextSelection", preparePlainTextSelectionForXml)
    @@ ListXml(source, "Coding", prepareCodingForXml)
    @@ RefsXml(source, "NoteRef")
    @@ ListXml(source, "VariableValue", prepareVariableValueForXml)

FileSourceTail(source) ==
    ListXml(source, "Coding", prepareCodingForXml)
    @@ RefsXml(source, "NoteRef")
    @@ ListXml(source, "VariableValue", prepareVariableValueForXml)

preparePictureSourceForXml(source) ==
    Node(Attrs(source, {"guid"}, FileSourceAttrs))
    @@ DescriptionXml(source)
    @@ OptF(Has(source, "TextDescription"), "TextDescription",
            XElem(prepareTextSourceForXml(source.TextDescription)))
    @@ ListXml(source, "PictureSelection", preparePictureSelectionForXml)
    @@ FileSourceTail(source)

preparePDFSelectionForXml(selection) ==
    Node(Attrs(selection, {"guid", "page", "firstX", "firstY", "secondX", "secondY"},
               {"name"} \cup ProvenanceAttrs))
    @@ DescriptionXml(selection)
    @@ OptF(Has(selection, "Representation"), "Representation",
            XElem(prepareTextSourceForXml(selection.Representation)))
    @@ ListXml(selection, "Coding", prepareCodingForXml)
    @@ RefsXml(selection, "NoteRef")

preparePDFSourceForXml(source) ==
    Node(Attrs(source, {"guid"}, FileSourceAttrs))
    @@ DescriptionXml(source)
    @@ ListXml(source, "PDFSelection", preparePDFSelectionForXml)
    @@ OptF(Has(source, "Representation"), "Representation",
            XElem(prepareTextSourceForXml(source.Representation)))
    @@ FileSourceTail(source)

\* timeStamp and position are written when `!== undefined`
prepareSyncPointForXml(syncPoint) ==
    Node(Attrs(syncPoint, {"guid", "timeStamp", "position"}, {}))

prepareTranscriptSelectionForXml(selection) ==
    Node(Attrs(selection, {"guid"},
               {"name", "fromSyncPoint", "toSyncPoint"} \cup ProvenanceAttrs))
    @@ DescriptionXml(selection)
    @@ ListXml(selection, "Coding", prepareCodingForXml)
    @@ RefsXml(selection, "NoteRef")

prepareTranscriptForXml(transcript) ==
    Node(Attrs(transcript, {"guid"}, TextSourceAttrs))
    @@ DescriptionXml(transcript)
    @@ OptF(Truthy(transcript, "PlainTextContent"), "PlainTextContent",
            XText(IF Has(transcript, "PlainTextContent") THEN transcript.PlainTextContent ELSE ""))
    @@ ListXml(transcript, "SyncPoint", prepareSyncPointForXml)
    @@ ListXml(transcript, "TranscriptSelection", prepareTranscriptSelectionForXml)
    @@ RefsXml(transcript, "NoteRef")

\* prepareAudioSourcesForXml and prepareVideoSourcesForXml, one source
prepareMediaSourceForXml(source, selectionType) ==
    Node(Attrs(source, {"guid"}, FileSourceAttrs))
    @@ DescriptionXml(source)
    @@ ListXml(source, "Transcript", prepareTranscriptForXml)
    @@ ListXml(source, selectionType, prepareTimeSelectionForXml)
    @@ FileSourceTail(source)

prepareAudioSourceForXml(source) == prepareMediaSourceForXml(source, "AudioSelection")
prepareVideoSourceForXml(source) == prepareMediaSourceForXml(source, "VideoSelection")

prepareSourcesForXml(sources) ==
    ListXml(sources, "TextSource", prepareTextSourceForXml)
    @@ ListXml(sources, "PictureSource", preparePictureSourceForXml)
    @@ ListXml(sources, "PDFSource", preparePDFSourceForXml)
    @@ ListXml(sources, "AudioSource", prepareAudioSourceForXml)
    @@ ListXml(sources, "VideoSource", prepareVideoSourceForXml)

prepareLinkForXml(link) ==
    Node(Attrs(link, {"guid", "name"}, {"direction", "color", "originGUID", "targetGUID"}))
    @@ RefsXml(link, "NoteRef")

prepareVertexForXml(vertex) ==
    Node(Attrs(vertex, {"guid", "firstX", "firstY", "secondX", "secondY"},
               {"representedGUID", "name", "shape", "color"}))

prepareEdgeForXml(edge) ==
    Node(Attrs(edge, {"guid", "sourceVertex", "targetVertex"},
               {"representedGUID", "name", "color", "direction", "lineStyle"}))

prepareGraphForXml(graph) ==
    Node(Attrs(graph, {"guid", "name"}, {}))
    @@ ListXml(graph, "Vertex", prepareVertexForXml)
    @@ ListXml(graph, "Edge", prepareEdgeForXml)

prepareSetForXml(set) ==
    Node(Attrs(set, {"guid", "name"}, {}))
    @@ DescriptionXml(set)
    @@ RefsXml(set, "MemberCode")
    @@ RefsXml(set, "MemberSource")
    @@ RefsXml(set, "MemberNote")

\* `xml.C = { F: prepare(project.C.F) }` where prepare maps undefined to []
ContainerXml(project, container, field, prepare(_)) ==
    OptF(Has(project, container), container,
         XElem([x \in {field} |->
                   XList([i \in 1..Len(ListOf(project[container], field)) |->
                             prepare(project[container][field][i])])]))

prepareProjectForXml(project) ==
    Node(Attrs(project, {"name"},
               {"origin", "creatingUserGUID", "creationDateTime", "modifyingUserGUID",
                "modifiedDateTime", "basePath"}))
    @@ DescriptionXml(project)
    @@ RefsXml(project, "NoteRef")
    @@ OptF(Has(project, "Users"), "Users",
            XElem([User |-> XList([i \in 1..Len(project.Users.User) |->
                                      Node(Pick(project.Users.User[i], {"guid", "name", "id"}))])]))
    @@ OptF(Has(project, "CodeBook"), "CodeBook",
            XElem([Codes |-> XElem([Code |->
                XList([i \in 1..Len(ListOf(project.CodeBook.Codes, "Code")) |->
                          prepareCodeForXml(project.CodeBook.Codes.Code[i])])])]))
    @@ ContainerXml(project, "Variables", "Variable", prepareVariableForXml)
    @@ ContainerXml(project, "Cases", "Case", prepareCaseForXml)
    @@ OptF(Has(project, "Sources"), "Sources",
            XElem(prepareSourcesForXml(IF Has(project, "Sources") THEN project.Sources ELSE NoFields)))
    @@ ContainerXml(project, "Notes", "Note", prepareTextSourceForXml)
    @@ ContainerXml(project, "Links", "Link", prepareLinkForXml)
    @@ ContainerXml(project, "Sets", "Set", prepareSetForXml)
    @@ ContainerXml(project, "Graphs", "Graph", prepareGraphForXml)

\* prepareProjectForXml raises a TypeError: a container without its list where
\* the list is dereferenced, or a null entry whose fields are read
prepareProjectForXmlThrows(project) ==
    \/ Has(project, "Users")
       /\ (~Has(project.Users, "User") \/ HasNullEntry(project.Users.User))
    \/ Has(project, "CodeBook") /\ ~Has(project.CodeBook, "Codes")
    \/ \E list \in TopLevelLists(project) : HasNullEntry(list)
    \/ Has(project, "Notes") /\ HasNullEntry(ListOf(project.Notes, "Note"))

-----------------------------------------------------------------------------
(* The document as xml2js hands it back: Builder.buildObject renders the    *)
(* tree, parseStringPromise with explicitArray:false and mergeAttrs:true    *)
(* reads it.  Attribute and element values come back as text; an array      *)
(* child with no entries leaves no element; one entry comes back as the     *)
(* bare node (arr = FALSE), several as an array; an element with neither    *)
(* attributes nor children comes back as "" (here: the record NoFields).    *)

BoolAttrs == {"isCodable"}
NumAttrs == {"startPosition", "endPosition", "firstX", "firstY", "secondX", "secondY",
             "page", "begin", "end", "timeStamp", "position"}

BoolText(b) == IF b THEN "true" ELSE "false"
NumText(v) == IF Has(v, "n") THEN [digits |-> v.n] ELSE [junk |-> "NaN"]
AttrText(name, v) ==
    IF name \in BoolAttrs THEN BoolText(v)
    ELSE IF name \in NumAttrs THEN NumText(v)
    ELSE v

RECURSIVE xml2js(_)
xml2js(node) ==
    LET attrs == IF AttrKey \in DOMAIN node THEN node[AttrKey] ELSE NoFields
        kept == {c \in DOMAIN node \ {AttrKey} :
                    node[c].t = "list" => node[c].items # <<>>}
        child(c) ==
            LET x == node[c] IN
            CASE x.t = "list" -> [arr |-> Len(x.items) > 1,
                                  items |-> [i \in 1..Len(x.items) |-> xml2js(x.items[i])]]
              [] x.t = "elem" -> xml2js(x.node)
              [] x.t = "text" -> x.value
              [] x.t = "num" -> NumText(x.value)
              [] x.t = "bool" -> BoolText(x.value)
    IN  [a \in DOMAIN attrs |-> AttrText(a, attrs[a])] @@ [c \in kept |-> child(c)]

\* truthiness of what xml2js returned for a child element
ElemTruthy(x, f) == Has(x, f) /\ DOMAIN x[f] # {}
ListTruthy(x, f) == Has(x, f) /\ (x[f].arr \/ DOMAIN x[f].items[1] # {})
TextTruthy(x, f) == Has(x, f) /\ x[f] # ""

\* `Array.isArray(x) ? x : [x]`, after `if (!x) return []`
AsArray(x, f) == IF ListTruthy(x, f) THEN x[f].items ELSE <<>>

\* parseInt(text, 10)
parseInt(x, f) == IF Has(x, f) /\ Has(x[f], "digits") THEN Num(x[f].digits) ELSE NaN
ParsedInts(x, names) == [f \in names |-> parseInt(x, f)]

-----------------------------------------------------------------------------
(* xml-parser.ts: convert...                                                *)

DescriptionObj(x) == OptF(TextTruthy(x, "Description"), "Description",
                          IF Has(x, "Description") THEN x.Description ELSE "")

\* convertNoteRefs, convertCodeRefs, convertSourceRefs, convertSelectionRefs
convertRefs(x, f) ==
    OptF(ListTruthy(x, f), f,
         [i \in 1..Len(AsArray(x, f)) |-> Pick(AsArray(x, f)[i], {"targetGUID"})])

ConvList(x, f, conv(_)) ==
    OptF(ListTruthy(x, f), f, [i \in 1..Len(AsArray(x, f)) |-> conv(AsArray(x, f)[i])])

RECURSIVE convertCode(_)
convertCode(code) ==
    Pick(code, {"guid", "name", "color"})
    @@ [isCodable |-> Has(code, "isCodable") /\ code.isCodable = "true"]
    @@ DescriptionObj(code)
    @@ convertRefs(code, "NoteRef")
    @@ OptF(ListTruthy(code, "Code"), "Code",
            [i \in 1..Len(AsArray(code, "Code")) |-> convertCode(AsArray(code, "Code")[i])])

convertVariable(variable) ==
    Pick(variable, {"guid", "name", "typeOfVariable"}) @@ DescriptionObj(variable)

convertVariableValue(value) ==
    [VariableRef |-> Pick(value.VariableRef, {"targetGUID"})]
    @@ (IF Has(value, "TextValue") THEN [TextValue |-> value.TextValue]
        ELSE IF Has(value, "BooleanValue") THEN [BooleanValue |-> value.BooleanValue = "true"]
        ELSE IF Has(value, "IntegerValue") THEN [IntegerValue |-> parseInt(value, "IntegerValue")]
        ELSE IF Has(value, "FloatValue") THEN [FloatValue |-> parseInt(value, "FloatValue")]
        ELSE IF Has(value, "DateValue") THEN [DateValue |-> value.DateValue]
        ELSE IF Has(value, "DateTimeValue") THEN [DateTimeValue |-> value.DateTimeValue]
        ELSE NoFields)

convertCase(caseItem) ==
    Pick(caseItem, {"guid", "name"})
    @@ DescriptionObj(caseItem)
    @@ convertRefs(caseItem, "CodeRef")
    @@ ConvList(caseItem, "VariableValue", convertVariableValue)
    @@ convertRefs(caseItem, "SourceRef")
    @@ convertRefs(caseItem, "SelectionRef")

convertCoding(coding) ==
    Pick(coding, {"guid", "creatingUser", "creationDateTime"})
    @@ [CodeRef |-> Pick(coding.CodeRef, {"targetGUID"})]
    @@ convertRefs(coding, "NoteRef")

convertSelection(selection, numeric) ==
    Pick(selection, {"guid", "name"} \cup ProvenanceAttrs)
    @@ ParsedInts(selection, numeric)
    @@ DescriptionObj(selection)
    @@ ConvList(selection, "Coding", convertCoding)
    @@ convertRefs(selection, "NoteRef")

convertPlainTextSelection(selection) ==
    convertSelection(selection, {"startPosition", "endPosition"})
convertPictureSelection(selection) ==
    convertSelection(selection, {"firstX", "firstY", "secondX", "secondY"})
convertTimeSelection(selection) ==
    convertSelection(selection, {"begin", "end"})

\* convertTextSources, one source: no path or currentPath is read (xml-parser.ts:336-345)
convertTextSource(source) ==
    Pick(source, {"guid"} \cup TextSourceAttrs)
    @@ DescriptionObj(source)
    @@ OptF(TextTruthy(source, "PlainTextContent"), "PlainTextContent",
            IF Has(source, "PlainTextContent") THEN source.PlainTextContent ELSE "")
    @@ ConvList(source, "PlainTextSelection", convertPlainTextSelection)
    @@ ConvList(source, "Coding", convertCoding)
    @@ convertRefs(source, "NoteRef")
    @@ ConvList(source, "VariableValue", convertVariableValue)

\* `convertTextSources(x.F)[0]` on a single child element
ConvNestedText(x, f) ==
    OptF(ElemTruthy(x, f), f, convertTextSource(IF Has(x, f) THEN x[f] ELSE NoFields))

FileSourceObjTail(source) ==
    ConvList(source, "Coding", convertCoding)
    @@ convertRefs(source, "NoteRef")
    @@ ConvList(source, "VariableValue", convertVariableValue)

convertPictureSource(source) ==
    Pick(source, {"guid"} \cup FileSourceAttrs)
    @@ DescriptionObj(source)
    @@ ConvNestedText(source, "TextDescription")
    @@ ConvList(source, "PictureSelection", convertPictureSelection)
    @@ FileSourceObjTail(source)

convertPDFSelection(selection) ==
    convertSelection(selection, {"page", "firstX", "firstY", "secondX", "secondY"})
    @@ ConvNestedText(selection, "Representation")

convertPDFSource(source) ==
    Pick(source, {"guid"} \cup FileSourceAttrs)
    @@ DescriptionObj(source)
    @@ ConvList(source, "PDFSelection", convertPDFSelection)
    @@ ConvNestedText(source, "Representation")
    @@ FileSourceObjTail(source)

\* timeStamp and position are parsed when `!== undefined`
convertSyncPoint(syncPoint) ==
    Pick(syncPoint, {"guid"})
    @@ ParsedInts(syncPoint, {"timeStamp", "position"} \cap DOMAIN syncPoint)

convertTranscriptSelection(selection) ==
    Pick(selection, {"guid", "name", "fromSyncPoint", "toSyncPoint"} \cup ProvenanceAttrs)
    @@ DescriptionObj(selection)
    @@ ConvList(selection, "Coding", convertCoding)
    @@ convertRefs(selection, "NoteRef")

convertTranscript(transcript) ==
    Pick(transcript, {"guid"} \cup TextSourceAttrs)
    @@ DescriptionObj(transcript)
    @@ OptF(TextTruthy(transcript, "PlainTextContent"), "PlainTextContent",
            IF Has(transcript, "PlainTextContent") THEN transcript.PlainTextContent ELSE "")
    @@ ConvList(transcript, "SyncPoint", convertSyncPoint)
    @@ ConvList(transcript, "TranscriptSelection", convertTranscriptSelection)
    @@ convertRefs(transcript, "NoteRef")

convertMediaSource(source, selectionType) ==
    Pick(source, {"guid"} \cup FileSourceAttrs)
    @@ DescriptionObj(source)
    @@ ConvList(source, "Transcript", convertTranscript)
    @@ ConvList(source, selectionType, convertTimeSelection)
    @@ FileSourceObjTail(source)

convertAudioSource(source) == convertMediaSource(source, "AudioSelection")
convertVideoSource(source) == convertMediaSource(source, "VideoSelection")

convertSources(xmlSources) ==
    ConvList(xmlSources, "TextSource", convertTextSource)
    @@ ConvList(xmlSources, "PictureSource", convertPictureSource)
    @@ ConvList(xmlSources, "PDFSource", convertPDFSource)
    @@ ConvList(xmlSources, "AudioSource", convertAudioSource)
    @@ ConvList(xmlSources, "VideoSource", convertVideoSource)

convertSet(set) ==
    Pick(set, {"guid", "name"})
    @@ DescriptionObj(set)
    @@ convertRefs(set, "MemberCode")
    @@ convertRefs(set, "MemberSource")
    @@ convertRefs(set, "MemberNote")

convertVertex(vertex) ==
    Pick(vertex, {"guid", "representedGUID", "name", "shape", "color"})
    @@ ParsedInts(vertex, {"firstX", "firstY"})
    @@ ParsedInts(vertex, {"secondX", "secondY"} \cap DOMAIN vertex)

convertEdge(edge) ==
    Pick(edge, {"guid", "representedGUID", "name", "sourceVertex", "targetVertex",
                "color", "direction", "lineStyle"})

convertGraph(graph) ==
    Pick(graph, {"guid", "name"})
    @@ ConvList(graph, "Vertex", convertVertex)
    @@ ConvList(graph, "Edge", convertEdge)

convertLink(link) ==
    Pick(link, {"guid", "name", "direction", "color", "originGUID", "targetGUID"})
    @@ convertRefs(link, "NoteRef")

\* `if (x.C) project.C = { F: convert(x.C.F) }`
ContainerObj(x, container, field, conv(_)) ==
    OptF(ElemTruthy(x, container), container,
         [y \in {field} |->
             [i \in 1..Len(AsArray(x[container], field)) |->
                 conv(AsArray(x[container], field)[i])]])

convertXmlToProject(xmlProject) ==
    Pick(xmlProject, {"name", "origin", "creatingUserGUID", "creationDateTime",
                      "modifyingUserGUID", "modifiedDateTime", "basePath", "Description"})
    @@ convertRefs(xmlProject, "NoteRef")
    @@ OptF(ElemTruthy(xmlProject, "Users"), "Users",
            [User |-> IF Has(xmlProject.Users, "User")
                      THEN xmlProject.Users.User.items ELSE <<Null>>])
    @@ OptF(ElemTruthy(xmlProject, "CodeBook"), "CodeBook",
            [Codes |-> [Code |->
                [i \in 1..Len(AsArray(xmlProject.CodeBook.Codes, "Code")) |->
                    convertCode(AsArray(xmlProject.CodeBook.Codes, "Code")[i])]]])
    @@ ContainerObj(xmlProject, "Variables", "Variable", convertVariable)
    @@ ContainerObj(xmlProject, "Cases", "Case", convertCase)
    @@ OptF(ElemTruthy(xmlProject, "Sources"), "Sources",
            convertSources(IF Has(xmlProject, "Sources") THEN xmlProject.Sources ELSE NoFields))
    @@ ContainerObj(xmlProject, "Notes", "Note", convertTextSource)
    @@ ContainerObj(xmlProject, "Links", "Link", convertLink)
    @@ ContainerObj(xmlProject, "Sets", "Set", convertSet)
    @@ ContainerObj(xmlProject, "Graphs", "Graph", convertGraph)

\* buildQDEFile: the document, or the ExportError it raises
buildQDEFile(project) ==
    IF prepareProjectForXmlThrows(project)
    THEN [threw |-> TRUE]
    ELSE [threw |-> FALSE, xml |-> xml2js(prepareProjectForXml(project))]

\* parseQDEFile of a document buildQDEFile returned
parseQDEFile(qde) == convertXmlToProject(qde.xml)

-----------------------------------------------------------------------------
(* validateProjectForExport (validators.ts:17-45).  The result is the list  *)
(* of issues, or threw = TRUE when a TypeError escapes the function: only   *)
(* the call of buildQDEFile sits in a try block.  Null entries are modelled *)
(* in the top-level lists only.                                             *)

validateProjectForExport(project) ==
    IF validateProjectGUIDsThrows(project)
    THEN [threw |-> TRUE, errors |-> <<>>]
    ELSE [threw |-> FALSE,
          errors |->
              (IF ~TruthyStr(project, "name")
               THEN <<Issue("MissingName", <<"project">>, "", <<>>)>> ELSE <<>>)
              \o validateProjectGUIDs(project)
              \o validateProjectSources(project)
              \o validateProjectReferences(project)
              \o (IF buildQDEFile(project).threw
                  THEN <<Issue("XmlGenerationError", <<"project">>, "", <<>>)>> ELSE <<>>)]

-----------------------------------------------------------------------------
(* source-processor.ts.                                                     *)

DefaultMaxInternalFileSize == 2147483647
FallbackMaxInternalFileSize == 2147483646

\* uuidv4(): the n-th identifier generated
Uuid(n) == <<"uuid1", "uuid2", "uuid3", "uuid4", "uuid5", "uuid6">>[n]

hasPathProperties(source) == ~IsNull(source) /\ Has(source, "guid")

\* an option that is undefined or the empty string reads as <<>>
PathOption(opts, f) == IF Has(opts, f) THEN opts[f] ELSE <<>>

\* resolveSourcePath(pathString, basePath): the path, or the ExportError
resolveSourcePath(pathString, basePath) ==
    IF startsWith(pathString, SchemeInternal)
    THEN LET filename == substring(pathString, 11)
         IN [threw |-> FALSE,
             path |-> IF basePath # <<>> THEN pathResolve(basePath, filename) ELSE filename]
    ELSE IF startsWith(pathString, SchemeRelative)
    THEN LET relativePath == substring(pathString, 11)
             cleanRelativePath == IF startsWith(relativePath, Sep)
                                  THEN substring(relativePath, 1) ELSE relativePath
         IN IF basePath = <<>>
            THEN [threw |-> TRUE, path |-> <<>>]
            ELSE [threw |-> FALSE, path |-> pathResolve(basePath, cleanRelativePath)]
    ELSE IF startsWith(pathString, SchemeAbsolute)
    THEN [threw |-> FALSE, path |-> substring(pathString, 11)]
    ELSE [threw |-> FALSE,
          path |-> IF basePath # <<>> THEN pathResolve(basePath, pathString) ELSE pathString]

\* fs.promises.stat / readFile succeed on the files of the filesystem
FileExists(fs, p) == FsKey(p) \in DOMAIN fs
FileSize(fs, p) == fs[FsKey(p)]

\* Map.prototype.set on the file set, kept in insertion order
MapSet(files, name, from) ==
    IF \E i \in 1..Len(files) : files[i].name = name
    THEN [i \in 1..Len(files) |->
             IF files[i].name = name THEN [name |-> name, from |-> from] ELSE files[i]]
    ELSE Append(files, [name |-> name, from |-> from])

SourceInfo(guid, originalPath, sourceType, filename, extension) ==
    [guid |-> guid, originalPath |-> originalPath, sourceType |-> sourceType,
     filename |-> filename, extension |-> extension]

Warning(kind, path) == [kind |-> kind, path |-> path]

\* the branch for a source whose path starts with internal:// (lines 86-107)
processInternalSource(source, st, fs) ==
    LET filename == substring(source.path, 11)
        currentPath == PathOption(source, "currentPath")
        info == SourceInfo(source.guid, currentPath, "internal", filename,
                           pathExtname(filename))
        st1 == [st EXCEPT !.sourceInfoList = Append(@, info)]
        originalPath == resolveSourcePath(currentPath, <<>>).path
    IN IF currentPath = <<>> THEN st1
       ELSE IF FileExists(fs, originalPath)
       THEN [st1 EXCEPT !.sourceFiles = MapSet(@, <<"sources/">> \o filename, FsKey(originalPath))]
       ELSE [st1 EXCEPT !.warnings = Append(@, Warning("CouldNotIncludeInternal", currentPath))]

\* the branch for every other source that has a path (lines 108-167); the
\* try block opened at line 110 encloses the ExportError thrown at line 150
processExternalSource(source, sourceType, opts, st, fs) ==
    LET resolved == resolveSourcePath(source.path, PathOption(opts, "exportBasePath"))
        sourcePath == resolved.path
        filename == pathBasename(sourcePath)
        extension == pathExtname(filename)
        maxSize == IF Has(opts, "maxInternalFileSize")
                   THEN opts.maxInternalFileSize ELSE FallbackMaxInternalFileSize
        include == Has(opts, "includeExternalSources") /\ opts.includeExternalSources
        keptType == IF startsWith(source.path, SchemeAbsolute) THEN "absolute" ELSE "relative"
        newFilename == <<Uuid(st.uuidCount + 1)>> \o extension
        handleMissing == IF Has(opts, "onMissingSource")
                         THEN opts.onMissingSource = "returnsTrue" ELSE TRUE
        invalid == [st EXCEPT !.warnings = Append(@, Warning("InvalidSourcePath", source.path))]
    IN IF resolved.threw THEN invalid
       ELSE IF FileExists(fs, sourcePath)
       THEN IF FileSize(fs, sourcePath) <= maxSize /\ include
            THEN [st EXCEPT
                    !.uuidCount = @ + 1,
                    !.sourceFiles = MapSet(@, <<"sources/">> \o newFilename, FsKey(sourcePath)),
                    !.sourceInfoList = Append(@, SourceInfo(source.guid, sourcePath, "internal",
                                                            newFilename, extension))]
            ELSE [st EXCEPT
                    !.externalSources = Append(@, sourcePath),
                    !.sourceInfoList = Append(@, SourceInfo(source.guid, sourcePath, keptType,
                                                            filename, extension))]
       ELSE IF ~handleMissing
       THEN invalid
       ELSE [st EXCEPT
               !.warnings = Append(@, Warning("CouldNotProcess", sourcePath)),
               !.sourceInfoList = Append(@, SourceInfo(source.guid, sourcePath, keptType,
                                                       filename, extension))]

\* processSource(source, sourceType) on the state of the packaging pass:
\* [warnings, externalSources, sourceFiles, sourceInfoList, uuidCount]
processSource(source, sourceType, opts, st, fs) ==
    IF ~hasPathProperties(source) \/ ~TruthyPath(source, "path") THEN st
    ELSE IF startsWith(source.path, SchemeInternal) THEN processInternalSource(source, st, fs)
    ELSE processExternalSource(source, sourceType, opts, st, fs)

\* fs.promises.stat rejects for the source: it has an external path that
\* resolves, and no file is there (the catch at line 145 is entered)
StatFails(source, opts, fs) ==
    /\ hasPathProperties(source)
    /\ TruthyPath(source, "path")
    /\ ~startsWith(source.path, SchemeInternal)
    /\ ~resolveSourcePath(source.path, PathOption(opts, "exportBasePath")).threw
    /\ ~FileExists(fs, resolveSourcePath(source.path, PathOption(opts, "exportBasePath")).path)

\* the variant in which the loops run from VideoSource back to TextSource
ProcessingOrderReversed(project) ==
    ConcatAll([k \in 1..5 |->
        [i \in 1..Len(SourcesOf(project, SourceKinds[6 - k])) |->
            [type |-> SourceKinds[6 - k], index |-> i]]])

\* the sources in the order of the five loops (lines 171-200)
ProcessingOrder(project) ==
    ConcatAll([k \in 1..5 |->
        [i \in 1..Len(SourcesOf(project, SourceKinds[k])) |->
            [type |-> SourceKinds[k], index |-> i]]])

SourceAt(project, pos) == project.Sources[pos.type][pos.index]

\* sourceMap.get(guid): the last SourceInfo pushed for the guid
HasInfo(infoList, source) ==
    ~IsNull(source) /\ Has(source, "guid")
    /\ \E i \in 1..Len(infoList) : infoList[i].guid = source.guid
InfoFor(infoList, source) ==
    infoList[CHOOSE i \in 1..Len(infoList) :
                 /\ infoList[i].guid = source.guid
                 /\ \A j \in (i + 1)..Len(infoList) : infoList[j].guid # source.guid]

\* updateSourcePath(source, info) (lines 221-241)
updateSourcePath(source, info, project) ==
    LET absoluteOriginal == <<SchemeAbsolute, Sep>> \o info.originalPath
        withCurrent(s) == IF Has(s, "currentPath")
                          THEN SetField(s, "currentPath", absoluteOriginal) ELSE s
    IN IF ~hasPathProperties(source) THEN source
       ELSE IF info.sourceType = "internal"
       THEN withCurrent(SetField(source, "path", <<SchemeInternal>> \o info.filename))
       ELSE IF info.sourceType = "relative"
       THEN withCurrent(SetField(source, "path",
                <<SchemeRelative, Sep>>
                \o pathRelative(PathOption(project, "basePath"), info.originalPath)))
       ELSE SetField(source, "path", absoluteOriginal)

\* updateProjectSourcePaths raises a TypeError on a null entry (source.guid)
updateProjectSourcePathsThrows(project) ==
    \E k \in 1..5 : HasNullEntry(SourcesOf(project, SourceKinds[k]))

updateProjectSourcePaths(project, infoList) ==
    IF ~Has(project, "Sources") THEN project
    ELSE [project EXCEPT !.Sources =
            [t \in DOMAIN @ |->
                IF t \in Range(SourceKinds)
                THEN [i \in 1..Len(@[t]) |->
                         IF HasInfo(infoList, @[t][i])
                         THEN updateSourcePath(@[t][i], InfoFor(infoList, @[t][i]), project)
                         ELSE @[t][i]]
                ELSE @[t]]]

-----------------------------------------------------------------------------
(* exportQDPX (options.ts:97-156) and createQDPXFile (part_004:20-59).      *)

OutputPath == <<Sep, "out", Sep, "p.qdpx">>

CallerRef == "caller"
CopyRef == "copy"

\* the variant without a copy: the call works on the caller's own object
aliasCopy(h, ref) == [heap |-> h, ref |-> ref]

\* the object JSON.parse allocates: one that no earlier call holds
FreshRef(h) == IF CopyRef \in DOMAIN h THEN "copy2" ELSE CopyRef

\* the variant in which every call parses into the same object
sharedCopy(h, ref) == [heap |-> (CopyRef :> h[ref]) @@ h, ref |-> CopyRef]

\* JSON.parse(JSON.stringify(project)): a new object holding the same value
deepCopy(h, ref) == [heap |-> (FreshRef(h) :> h[ref]) @@ h, ref |-> FreshRef(h)]

\* the variant in which an unset overwrite option permits overwriting
configureOptionsOverwriteUnset(opts) ==
    [includeExternalSources |->
        IF Has(opts, "includeExternalSources") THEN opts.includeExternalSources ELSE FALSE,
     exportBasePath |->
        IF PathOption(opts, "exportBasePath") # <<>>
        THEN opts.exportBasePath ELSE pathDirname(OutputPath),
     maxInternalFileSize |->
        IF Has(opts, "maxInternalFileSize") /\ opts.maxInternalFileSize # 0
        THEN opts.maxInternalFileSize ELSE DefaultMaxInternalFileSize,
     validateBeforeExport |->
        IF Has(opts, "validateBeforeExport") THEN opts.validateBeforeExport ELSE TRUE,
     overwrite |-> IF Has(opts, "overwrite") THEN opts.overwrite ELSE TRUE]

\* the options with their defaults (options.ts:106-112); onMissingSource is
\* not among the fields that are carried over
configureOptions(opts) ==
    [includeExternalSources |->
        IF Has(opts, "includeExternalSources") THEN opts.includeExternalSources ELSE FALSE,
     exportBasePath |->
        IF PathOption(opts, "exportBasePath") # <<>>
        THEN opts.exportBasePath ELSE pathDirname(OutputPath),
     maxInternalFileSize |->
        IF Has(opts, "maxInternalFileSize") /\ opts.maxInternalFileSize # 0
        THEN opts.maxInternalFileSize ELSE DefaultMaxInternalFileSize,
     validateBeforeExport |->
        IF Has(opts, "validateBeforeExport") THEN opts.validateBeforeExport ELSE TRUE,
     overwrite |-> IF Has(opts, "overwrite") THEN opts.overwrite ELSE FALSE]

Pending == [status |-> "pending"]
ExportError(message, details) ==
    [status |-> "ExportError", message |-> message, details |-> details]
Success(ext, warn) ==
    [status |-> "success", qdpxPath |-> OutputPath, externalSources |-> ext, warnings |-> warn]

\* the variant in which the container is written before serialization
StageWriteBeforeSerialize(stage) ==
    CASE stage = "start" -> "validate"
      [] stage = "validate" -> "sources"
      [] stage = "sources" -> "rewrite"
      [] stage = "rewrite" -> "write"
      [] stage = "serialize" -> "write"
      [] stage = "write" -> "done"

\* the statement order of exportQDPX after the overwrite check
StageAfter(stage) ==
    CASE stage = "start" -> "validate"
      [] stage = "validate" -> "sources"
      [] stage = "sources" -> "rewrite"
      [] stage = "rewrite" -> "serialize"
      [] stage = "serialize" -> "write"
      [] stage = "write" -> "done"

\* the packaging pass's state as one record, and back
PassState ==
    [warnings |-> warnings, externalSources |-> externalSources,
     sourceFiles |-> sourceFiles, sourceInfoList |-> sourceInfoList,
     uuidCount |-> uuidCount]

SetPassState(st) ==
    /\ warnings' = st.warnings
    /\ externalSources' = st.externalSources
    /\ sourceFiles' = st.sourceFiles
    /\ sourceInfoList' = st.sourceInfoList
    /\ uuidCount' = st.uuidCount

passVars == <<warnings, externalSources, sourceFiles, sourceInfoList, uuidCount>>
callerVars == <<projectRef, original, options, fsFiles, valInput, valOutput>>

\* throw: the call ends with the error, nothing further runs
Throw(error) ==
    /\ result' = error
    /\ pc' = "done"

\* lines 99-122: copy, defaults, overwrite check, basePath default
ExportBegin ==
    /\ pc = "start"
    /\ LET c == deepCopy(heap, projectRef)
           eo == configureOptions(options)
           copy == c.heap[c.ref]
       IN /\ copyRef' = c.ref
          /\ exportOptions' = eo
          /\ IF outFile.exists /\ ~eo.overwrite
             THEN /\ heap' = c.heap
                  /\ Throw(ExportError("OutputExists", <<>>))
                  /\ done' = done
             ELSE /\ heap' = [c.heap EXCEPT ![c.ref] =
                                 IF ~TruthyPath(copy, "basePath") /\ eo.exportBasePath # <<>>
                                 THEN SetField(copy, "basePath", eo.exportBasePath)
                                 ELSE copy]
                  /\ pc' = StageAfter(pc)
                  /\ done' = Append(done, "overwriteCheck")
                  /\ result' = result
    /\ UNCHANGED <<callerVars, passVars, outFile, idx, qdeContent, missing>>

\* lines 125-130
ExportValidate ==
    /\ pc = "validate"
    /\ LET v == validateProjectForExport(heap[copyRef])
       IN IF ~exportOptions.validateBeforeExport
          THEN pc' = StageAfter(pc) /\ done' = Append(done, "validate") /\ result' = result
          ELSE IF v.threw
          THEN Throw(ExportError("FailedToExport", <<>>)) /\ done' = done
          ELSE IF v.errors # <<>>
          THEN Throw(ExportError("ValidationFailed", v.errors)) /\ done' = done
          ELSE pc' = StageAfter(pc) /\ done' = Append(done, "validate") /\ result' = result
    /\ UNCHANGED <<callerVars, passVars, heap, copyRef, exportOptions, outFile, idx,
                   qdeContent, missing>>

\* one iteration of the loops of processSourcesForExport (lines 171-200)
ExportProcessSource ==
    /\ pc = "sources"
    /\ idx <= Len(ProcessingOrder(heap[copyRef]))
    /\ LET pos == ProcessingOrder(heap[copyRef])[idx]
           source == SourceAt(heap[copyRef], pos)
           st == processSource(source, pos.type, exportOptions, PassState, fsFiles)
       IN /\ SetPassState(st)
          /\ missing' =
                IF StatFails(source, exportOptions, fsFiles)
                THEN Append(missing,
                            [guid |-> source.guid, type |-> pos.type, address |-> source.path,
                             warningsAdded |-> Len(st.warnings) - Len(warnings),
                             filesAdded |-> Len(st.sourceFiles) - Len(sourceFiles)])
                ELSE missing
    /\ idx' = idx + 1
    /\ UNCHANGED <<callerVars, heap, copyRef, exportOptions, outFile, pc, qdeContent,
                   result, done>>

\* processSourcesForExport returns (line 74 or 202)
ExportSourcesDone ==
    /\ pc = "sources"
    /\ idx > Len(ProcessingOrder(heap[copyRef]))
    /\ pc' = StageAfter(pc)
    /\ done' = Append(done, "sources")
    /\ UNCHANGED <<callerVars, passVars, heap, copyRef, exportOptions, outFile, idx,
                   qdeContent, result, missing>>

\* line 136
ExportRewrite ==
    /\ pc = "rewrite"
    /\ IF updateProjectSourcePathsThrows(heap[copyRef])
       THEN Throw(ExportError("FailedToExport", <<>>)) /\ UNCHANGED <<heap, done>>
       ELSE /\ heap' = [heap EXCEPT ![copyRef] = updateProjectSourcePaths(@, sourceInfoList)]
            /\ pc' = StageAfter(pc)
            /\ done' = Append(done, "rewrite")
            /\ result' = result
    /\ UNCHANGED <<callerVars, passVars, copyRef, exportOptions, outFile, idx, qdeContent,
                   missing>>

\* line 139
ExportSerialize ==
    /\ pc = "serialize"
    /\ LET qde == buildQDEFile(heap[copyRef])
       IN IF qde.threw
          THEN Throw(ExportError("FailedToBuild", <<>>)) /\ UNCHANGED <<qdeContent, done>>
          ELSE /\ qdeContent' = qde
               /\ pc' = StageAfter(pc)
               /\ done' = Append(done, "serialize")
               /\ result' = result
    /\ UNCHANGED <<callerVars, passVars, heap, copyRef, exportOptions, outFile, idx,
                   missing>>

\* line 142 and createQDPXFile: the archive is assembled in memory, the
\* directory made, and fs.promises.writeFile is the last statement; a
\* failure of an earlier statement raises ExportError with nothing written
ExportWrite ==
    /\ pc = "write"
    /\ \E ok \in BOOLEAN :
          IF ok
          THEN /\ outFile' = [exists |-> TRUE,
                              content |-> [qde |-> qdeContent, files |-> sourceFiles]]
               /\ result' = Success(externalSources, warnings)
               /\ done' = Append(done, "write")
               /\ pc' = StageAfter(pc)
          ELSE /\ Throw(ExportError("FailedToCreate", <<>>))
               /\ UNCHANGED <<outFile, done>>
    /\ UNCHANGED <<callerVars, passVars, heap, copyRef, exportOptions, idx, qdeContent,
                   missing>>

-----------------------------------------------------------------------------
(* The bounded inputs of an export call.                                    *)

BaseDir == <<Sep, "base">>
OtherDir == <<Sep, "other">>

\* the manifest of a container holding one text source, as xml2js reads it
P1Manifest ==
    [name |-> "P1",
     Sources |-> [TextSource |->
        [arr |-> FALSE, items |-> <<[guid |-> "g01", PlainTextContent |-> "hello"]>>]]]

\* the Project importQDPX returns for that container
ImportedP1 == convertXmlToProject(P1Manifest)

\* the sources a project is assembled from
SourceTemplates ==
    << [type |-> "TextSource", source |-> ImportedP1.Sources.TextSource[1]],
       [type |-> "PictureSource",
        source |-> [guid |-> "g02", name |-> "pic", path |-> <<SchemeRelative, "a.mp4">>]],
       [type |-> "PDFSource",
        source |-> [guid |-> "g03", name |-> "doc", path |-> <<"a.mp4">>]],
       [type |-> "AudioSource",
        source |-> [guid |-> "g04", name |-> "rec",
                    path |-> <<SchemeAbsolute>> \o BaseDir \o <<Sep, "a.mp4">>]],
       [type |-> "VideoSource",
        source |-> [guid |-> "g05", name |-> "held",
                    path |-> <<SchemeInternal, "f.txt">>,
                    currentPath |-> <<SchemeAbsolute>> \o BaseDir \o <<Sep, "f.txt">>]],
       [type |-> "VideoSource",
        source |-> [guid |-> "g06", name |-> "clip",
                    path |-> <<SchemeRelative, Sep, "a.mp4">>]] >>

\* the templates of one kind among the chosen ones, in template order
TemplatesOfKind(chosen, type) ==
    LET picked == SelectSeq([i \in 1..Len(SourceTemplates) |-> i],
                            LAMBDA i : i \in chosen /\ SourceTemplates[i].type = type)
    IN [k \in 1..Len(picked) |-> SourceTemplates[picked[k]].source]

MkProject(chosen, basePath) ==
    [name |-> "P1"]
    @@ OptF(basePath # <<>>, "basePath", basePath)
    @@ OptF(chosen # {}, "Sources",
            [t \in {SourceTemplates[i].type : i \in chosen} |-> TemplatesOfKind(chosen, t)])

InputProjects ==
    {MkProject(chosen, basePath) :
        chosen \in {c \in SUBSET (1..Len(SourceTemplates)) : Cardinality(c) <= MaxSources},
        basePath \in {<<>>, OtherDir}}

\* an option is left out, or given one of the listed values
OptionChoices(f, values) == {NoFields} \cup {[x \in {f} |-> v] : v \in values}

InputOptions ==
    {a @@ b @@ c @@ d @@ e @@ g :
        a \in OptionChoices("includeExternalSources", {TRUE}),
        b \in OptionChoices("maxInternalFileSize", 0..MaxConfiguredSize),
        c \in OptionChoices("validateBeforeExport", {FALSE}),
        d \in OptionChoices("overwrite", {TRUE, FALSE}),
        e \in OptionChoices("onMissingSource", {"returnsTrue", "returnsFalse"}),
        g \in OptionChoices("exportBasePath", {BaseDir})}

\* the files under /base: a.mp4 of some size, f.txt
InputFilesystems ==
    {NoFields, (<<"base", "f.txt">> :> 1)}
    \cup {(<<"base", "a.mp4">> :> size) @@ (<<"base", "f.txt">> :> 1) : size \in 0..MaxFileSize}

Absent == [exists |-> FALSE]
OldContainer == [exists |-> TRUE, content |-> [old |-> TRUE]]

EmptyPass ==
    /\ warnings = <<>>
    /\ externalSources = <<>>
    /\ sourceFiles = <<>>
    /\ sourceInfoList = <<>>
    /\ uuidCount = 0

Init ==
    /\ original \in InputProjects
    /\ projectRef = CallerRef
    /\ heap = (CallerRef :> original)
    /\ copyRef = CallerRef
    /\ options \in InputOptions
    /\ exportOptions = NoFields
    /\ fsFiles \in InputFilesystems
    /\ outFile \in {Absent, OldContainer}
    /\ (outFile.exists \/ ~Has(options, "overwrite"))
    /\ pc = "start"
    /\ idx = 1
    /\ EmptyPass
    /\ qdeContent = [threw |-> TRUE]
    /\ result = Pending
    /\ done = <<>>
    /\ missing = <<>>
    /\ valInput = NoFields
    /\ valOutput = NoFields

Next ==
    \/ ExportBegin
    \/ ExportValidate
    \/ ExportProcessSource
    \/ ExportSourcesDone
    \/ ExportRewrite
    \/ ExportSerialize
    \/ ExportWrite

Spec == Init /\ [][Next]_vars

-----------------------------------------------------------------------------
(* Properties of the export pipeline (specification Spec).                  *)

Finished == pc = "done"
Succeeded == pc = "done" /\ result.status = "success"
Failed(message) ==
    pc = "done" /\ result.status = "ExportError" /\ result.message = message
NothingWritten == outFile \in {Absent, OldContainer}

AllStages == <<"overwriteCheck", "validate", "sources", "rewrite", "serialize", "write">>

\* the sources of a project, all kinds, in processing order
AllSources(project) ==
    [k \in 1..Len(ProcessingOrder(project)) |->
        SourceAt(project, ProcessingOrder(project)[k])]

\* the address a project holds for the source with the given guid, <<>> if none
AddressOf(project, guid) ==
    LET hits == SelectSeq(AllSources(project), LAMBDA src : GuidOf(src) = guid)
    IN IF hits = <<>> THEN <<>> ELSE PathOption(hits[1], "path")

\* the Project a reader of the written container obtains
WrittenProject == parseQDEFile(outFile.content.qde)

\* C1: a call of exportQDPX leaves the caller's Project unchanged, at every
\* point of the call and whether it returns or throws: every field of the
\* object the caller passed has the value it had before the call.
CallerProjectUnchanged == heap[projectRef] = original

\* C1, the case: a finished export whose private copy was rewritten
CopyRewrittenCallerIntact ==
    /\ Succeeded
    /\ copyRef # projectRef
    /\ heap[copyRef] # original
    /\ \E k \in 1..Len(AllSources(original)) :
          Has(AllSources(original)[k], "path")
          /\ AllSources(heap[copyRef])[k].path # AllSources(original)[k].path

\* C2: when an external source's file cannot be stat'ed and the caller's
\* onMissingSource callback returns false, the export is aborted at that
\* source: the call ends with the ExportError 'Export aborted due to missing
\* source', no later source is processed and no container is written.
DeclinedMissingSourceAborts ==
    (/\ Has(options, "onMissingSource")
     /\ options.onMissingSource = "returnsFalse"
     /\ missing # <<>>)
    => /\ Failed("ExportAborted")
       /\ Len(missing) = 1
       /\ NothingWritten

\* C2, the case: the callback declines, a file is missing, the call is over
DeclinedMissingSourceFinished ==
    /\ Finished
    /\ Has(options, "onMissingSource")
    /\ options.onMissingSource = "returnsFalse"
    /\ missing # <<>>
    /\ Succeeded
    /\ outFile.exists

\* C3: when an external source's file is missing and the callback returns
\* true or is not configured, the export completes successfully, exactly one
\* warning is recorded for the source, no file-set entry is added for it, and
\* the manifest holds for it the address string of the input project.
MissingSourceKeepsAddress ==
    (/\ Finished
     /\ ~Failed("FailedToCreate")
     /\ missing # <<>>
     /\ (Has(options, "onMissingSource") => options.onMissingSource = "returnsTrue"))
    => /\ Succeeded
       /\ \A i \in 1..Len(missing) :
             /\ missing[i].warningsAdded = 1
             /\ missing[i].filesAdded = 0
             /\ AddressOf(WrittenProject, missing[i].guid) = missing[i].address
             /\ AddressOf(original, missing[i].guid) = missing[i].address

\* C3, the case: a successful export with a missing external source
MissingSourceExported ==
    /\ Succeeded
    /\ missing # <<>>
    /\ ~Has(options, "onMissingSource")
    /\ Len(result.warnings) = Len(missing)

\* the external sources whose file exists, with the size of the file
\* (the SourceInfo entries whose originalPath is the resolved path)
ExistingExternal ==
    {info \in Range(sourceInfoList) :
        /\ ~startsWith(AddressOf(original, info.guid), SchemeInternal)
        /\ FileExists(fsFiles, info.originalPath)}

Embedded(info) ==
    /\ \E f \in Range(outFile.content.files) : f.from = FsKey(info.originalPath)
    /\ startsWith(AddressOf(WrittenProject, info.guid), SchemeInternal)
    /\ info.originalPath \notin Range(result.externalSources)

KeptExternal(info) ==
    /\ \A f \in Range(outFile.content.files) : f.from # FsKey(info.originalPath)
    /\ ~startsWith(AddressOf(WrittenProject, info.guid), SchemeInternal)
    /\ info.originalPath \in Range(result.externalSources)

\* C4: for every configured maxInternalFileSize M >= 0 with
\* includeExternalSources = true, an existing external source file of size
\* exactly M is embedded and one of size M + 1 is kept external.
ThresholdIsInclusiveBound ==
    (/\ Succeeded
     /\ Has(options, "maxInternalFileSize")
     /\ Has(options, "includeExternalSources"))
    => \A info \in ExistingExternal :
          /\ FileSize(fsFiles, info.originalPath) = options.maxInternalFileSize
                => Embedded(info)
          /\ FileSize(fsFiles, info.originalPath) = options.maxInternalFileSize + 1
                => KeptExternal(info)

\* C4, the case: both sides of a configured threshold are exercised
ThresholdExercised ==
    /\ Succeeded
    /\ Has(options, "maxInternalFileSize")
    /\ Has(options, "includeExternalSources")
    /\ \E info \in ExistingExternal :
          /\ FileSize(fsFiles, info.originalPath) = options.maxInternalFileSize + 1
          /\ KeptExternal(info)

ImportedProjectReexports ==
    (/\ original = ImportedP1
     /\ options = NoFields
     /\ Finished
     /\ done # <<>>
     /\ ~Failed("FailedToCreate"))
    => /\ Succeeded
       /\ WrittenProject = original

\* C7, the case: the export of the imported project has ended
ImportedProjectExportEnded ==
    /\ original = ImportedP1
    /\ options = NoFields
    /\ Failed("ValidationFailed")
    /\ \E i \in 1..Len(result.details) : result.details[i].kind = "MissingPath"

-----------------------------------------------------------------------------
(* A Project of the object model (refi-qda-interfaces.ts) holding every     *)
(* entity kind once.  g gives each identifier-owning entity its GUID, r     *)
(* each reference field its target, o the fields that replace or extend an  *)
(* entity's own.                                                            *)

SlotGuid ==
    [user |-> "g01", code |-> "g02", subcode |-> "g03", variable |-> "g04",
     case |-> "g05", text |-> "g06", textSel |-> "g07", textSelCoding |-> "g08",
     textCoding |-> "g09", picture |-> "g10", pictureDesc |-> "g11",
     pictureSel |-> "g12", pdf |-> "g13", pdfSel |-> "g14", pdfRep |-> "g15",
     audio |-> "g16", transcript |-> "g17", syncA |-> "g18", syncB |-> "g19",
     tSel |-> "g20", tSelCoding |-> "g21", audioSel |-> "g22", video |-> "g23",
     videoSel |-> "g24", note |-> "g25", noteCoding |-> "g26", link |-> "g27",
     set |-> "g28", graph |-> "g29", vertexA |-> "g30", vertexB |-> "g31",
     edge |-> "g32"]

Slots == DOMAIN SlotGuid

\* the path of each entity, in the notation of the validator's messages
SlotPath ==
    [user |-> <<"Users", "User", "0">>,
     code |-> <<"CodeBook", "Codes", "Code", "0">>,
     subcode |-> <<"CodeBook", "Codes", "Code", "0", "Code", "0">>,
     variable |-> <<"Variables", "Variable", "0">>,
     case |-> <<"Cases", "Case", "0">>,
     text |-> <<"Sources", "TextSource", "0">>,
     textSel |-> <<"Sources", "TextSource", "0", "PlainTextSelection", "0">>,
     textSelCoding |-> <<"Sources", "TextSource", "0", "PlainTextSelection", "0", "Coding", "0">>,
     textCoding |-> <<"Sources", "TextSource", "0", "Coding", "0">>,
     picture |-> <<"Sources", "PictureSource", "0">>,
     pictureDesc |-> <<"Sources", "PictureSource", "0", "TextDescription">>,
     pictureSel |-> <<"Sources", "PictureSource", "0", "PictureSelection", "0">>,
     pdf |-> <<"Sources", "PDFSource", "0">>,
     pdfSel |-> <<"Sources", "PDFSource", "0", "PDFSelection", "0">>,
     pdfRep |-> <<"Sources", "PDFSource", "0", "Representation">>,
     audio |-> <<"Sources", "AudioSource", "0">>,
     transcript |-> <<"Sources", "AudioSource", "0", "Transcript", "0">>,
     syncA |-> <<"Sources", "AudioSource", "0", "Transcript", "0", "SyncPoint", "0">>,
     syncB |-> <<"Sources", "AudioSource", "0", "Transcript", "0", "SyncPoint", "1">>,
     tSel |-> <<"Sources", "AudioSource", "0", "Transcript", "0", "TranscriptSelection", "0">>,
     tSelCoding |-> <<"Sources", "AudioSource", "0", "Transcript", "0",
                      "TranscriptSelection", "0", "Coding", "0">>,
     audioSel |-> <<"Sources", "AudioSource", "0", "AudioSelection", "0">>,
     video |-> <<"Sources", "VideoSource", "0">>,
     videoSel |-> <<"Sources", "VideoSource", "0", "VideoSelection", "0">>,
     note |-> <<"Notes", "Note", "0">>,
     noteCoding |-> <<"Notes", "Note", "0", "Coding", "0">>,
     link |-> <<"Links", "Link", "0">>,
     set |-> <<"Sets", "Set", "0">>,
     graph |-> <<"Graphs", "Graph", "0">>,
     vertexA |-> <<"Graphs", "Graph", "0", "Vertex", "0">>,
     vertexB |-> <<"Graphs", "Graph", "0", "Vertex", "1">>,
     edge |-> <<"Graphs", "Graph", "0", "Edge", "0">>]

\* the entity each reference field of the project points at
RefTarget ==
    [projectNote |-> "note", codeNote |-> "note", caseCode |-> "code",
     caseVariable |-> "variable", caseSource |-> "text", caseSelection |-> "textSel",
     textNote |-> "note", textVariable |-> "variable",
     textCodingCode |-> "code", textCodingNote |-> "note",
     textSelNote |-> "note", textSelCodingCode |-> "subcode",
     pictureDescNote |-> "note", pdfRepNote |-> "note",
     transcriptNote |-> "note", tSelFrom |-> "syncA", tSelTo |-> "syncB",
     tSelNote |-> "note", tSelCodingCode |-> "code",
     noteNote |-> "note", noteCodingCode |-> "code",
     linkOrigin |-> "code", linkTarget |-> "text", linkNote |-> "note",
     setCode |-> "code", setSource |-> "pdf", setNote |-> "note",
     vertexRepresented |-> "code", edgeRepresented |-> "link",
     edgeSource |-> "vertexA", edgeTarget |-> "vertexB"]

RefSlots == DOMAIN RefTarget

SlotRef == [k \in RefSlots |-> SlotGuid[RefTarget[k]]]

NoOverride == [s \in Slots |-> NoFields]

Ref(target) == [targetGUID |-> target]

Skeleton(g, r, o) ==
    LET Ent(slot, fields) == o[slot] @@ [guid |-> g[slot]] @@ fields
        Coding(slot, code) == Ent(slot, [CodeRef |-> Ref(r[code])])
        Box == [firstX |-> Num(1), firstY |-> Num(2), secondX |-> Num(3), secondY |-> Num(4)]
    IN
    [name |-> "P", origin |-> "app", Description |-> "about",
     NoteRef |-> <<Ref(r.projectNote)>>,
     Users |-> [User |-> <<Ent("user", [name |-> "ann", id |-> "a1"])>>],
     CodeBook |-> [Codes |-> [Code |->
        <<Ent("code", [name |-> "c", isCodable |-> TRUE, color |-> "#fff",
                       Description |-> "d", NoteRef |-> <<Ref(r.codeNote)>>,
                       Code |-> <<Ent("subcode", [name |-> "cc", isCodable |-> TRUE])>>])>>]],
     Variables |-> [Variable |->
        <<Ent("variable", [name |-> "v", typeOfVariable |-> "Integer", Description |-> "d"])>>],
     Cases |-> [Case |->
        <<Ent("case", [name |-> "k", Description |-> "d",
                       CodeRef |-> <<Ref(r.caseCode)>>,
                       VariableValue |-> <<[VariableRef |-> Ref(r.caseVariable),
                                            IntegerValue |-> Num(1)]>>,
                       SourceRef |-> <<Ref(r.caseSource)>>,
                       SelectionRef |-> <<Ref(r.caseSelection)>>])>>],
     Sources |->
        [TextSource |->
            <<Ent("text",
                  [name |-> "t", PlainTextContent |-> "hello", Description |-> "d",
                   PlainTextSelection |->
                       <<Ent("textSel",
                             [name |-> "s", startPosition |-> Num(1), endPosition |-> Num(2),
                              Coding |-> <<Coding("textSelCoding", "textSelCodingCode")>>,
                              NoteRef |-> <<Ref(r.textSelNote)>>])>>,
                   Coding |-> <<Coding("textCoding", "textCodingCode")
                                @@ [NoteRef |-> <<Ref(r.textCodingNote)>>]>>,
                   NoteRef |-> <<Ref(r.textNote)>>,
                   VariableValue |-> <<[VariableRef |-> Ref(r.textVariable),
                                        TextValue |-> "x"]>>])>>,
         PictureSource |->
            <<Ent("picture",
                  [name |-> "p", path |-> <<SchemeInternal, "a.png">>,
                   TextDescription |->
                       Ent("pictureDesc", [name |-> "pd", PlainTextContent |-> "seen",
                                           NoteRef |-> <<Ref(r.pictureDescNote)>>]),
                   PictureSelection |-> <<Ent("pictureSel", [name |-> "ps"] @@ Box)>>])>>,
         PDFSource |->
            <<Ent("pdf",
                  [name |-> "f", path |-> <<SchemeInternal, "a.pdf">>,
                   PDFSelection |-> <<Ent("pdfSel", [name |-> "fs", page |-> Num(1)] @@ Box)>>,
                   Representation |->
                       Ent("pdfRep", [name |-> "fr", PlainTextContent |-> "read",
                                      NoteRef |-> <<Ref(r.pdfRepNote)>>])])>>,
         AudioSource |->
            <<Ent("audio",
                  [name |-> "a", path |-> <<SchemeInternal, "a.mp3">>,
                   Transcript |->
                       <<Ent("transcript",
                             [name |-> "tr", PlainTextContent |-> "said",
                              SyncPoint |->
                                  <<Ent("syncA", [timeStamp |-> Num(1), position |-> Num(1)]),
                                    Ent("syncB", [timeStamp |-> Num(2), position |-> Num(2)])>>,
                              TranscriptSelection |->
                                  <<Ent("tSel",
                                        [name |-> "ts", fromSyncPoint |-> r.tSelFrom,
                                         toSyncPoint |-> r.tSelTo,
                                         Coding |-> <<Coding("tSelCoding", "tSelCodingCode")>>,
                                         NoteRef |-> <<Ref(r.tSelNote)>>])>>,
                              NoteRef |-> <<Ref(r.transcriptNote)>>])>>,
                   AudioSelection |->
                       <<Ent("audioSel", [name |-> "as", begin |-> Num(1), end |-> Num(2)])>>])>>,
         VideoSource |->
            <<Ent("video",
                  [name |-> "w", path |-> <<SchemeInternal, "a.mp4">>,
                   VideoSelection |->
                       <<Ent("videoSel", [name |-> "ws", begin |-> Num(1), end |-> Num(2)])>>])>>],
     Notes |-> [Note |->
        <<Ent("note", [name |-> "n", PlainTextContent |-> "memo",
                       NoteRef |-> <<Ref(r.noteNote)>>,
                       Coding |-> <<Coding("noteCoding", "noteCodingCode")>>])>>],
     Links |-> [Link |->
        <<Ent("link", [name |-> "l", direction |-> "OneWay", color |-> "#000",
                       originGUID |-> r.linkOrigin, targetGUID |-> r.linkTarget,
                       NoteRef |-> <<Ref(r.linkNote)>>])>>],
     Sets |-> [Set |->
        <<Ent("set", [name |-> "s", Description |-> "d",
                      MemberCode |-> <<Ref(r.setCode)>>,
                      MemberSource |-> <<Ref(r.setSource)>>,
                      MemberNote |-> <<Ref(r.setNote)>>])>>],
     Graphs |-> [Graph |->
        <<Ent("graph",
              [name |-> "g",
               Vertex |-> <<Ent("vertexA", [name |-> "va", shape |-> "Oval", color |-> "#0f0",
                                            representedGUID |-> r.vertexRepresented] @@ Box),
                            Ent("vertexB", [name |-> "vb"] @@ Box)>>,
               Edge |-> <<Ent("edge", [name |-> "e", representedGUID |-> r.edgeRepresented,
                                       sourceVertex |-> r.edgeSource,
                                       targetVertex |-> r.edgeTarget,
                                       direction |-> "OneWay", lineStyle |-> "solid",
                                       color |-> "#00f"])>>])>>]]

\* the canonical project: distinct identifiers, every reference resolved
CanonicalProject == Skeleton(SlotGuid, SlotRef, NoOverride)

-----------------------------------------------------------------------------
(* The bounded inputs of validateProjectForExport.  Every project is the    *)
(* canonical one with a path on its text source (validators.ts:273), and    *)
(* one change: two entities share a GUID, one reference field names a GUID  *)
(* no entity owns, or a container has a shape the interfaces rule out.      *)

ValidOverride == [NoOverride EXCEPT !.text = [path |-> <<SchemeInternal, "t.txt">>]]

CleanProject == Skeleton(SlotGuid, SlotRef, ValidOverride)

\* entity b carries the GUID of entity a
DupProject(a, b) == Skeleton([SlotGuid EXCEPT ![b] = SlotGuid[a]], SlotRef, ValidOverride)

UnownedGuid == "g99"

\* reference field k names a GUID that no entity owns
DanglingProject(k) == Skeleton(SlotGuid, [SlotRef EXCEPT ![k] = UnownedGuid], ValidOverride)

\* the lists of the project that take a null entry
NullableLists ==
    {<<"Users", "User">>, <<"Variables", "Variable">>, <<"Cases", "Case">>,
     <<"Notes", "Note">>, <<"Links", "Link">>, <<"Sets", "Set">>, <<"Graphs", "Graph">>}
    \cup {<<"Sources", SourceKinds[k]>> : k \in 1..Len(SourceKinds)}

NullEntryProject(c, f) == [CleanProject EXCEPT ![c][f] = Append(@, Null)]

\* a container object without the list it should hold
EmptyContainers == {"Users", "CodeBook", "Variables", "Cases", "Notes", "Links", "Sets", "Graphs"}

EmptyContainerProject(c) == [CleanProject EXCEPT ![c] = NoFields]

ValInput(kind, a, b, project) == [kind |-> kind, a |-> a, b |-> b, project |-> project]

\* the kind of entity each slot holds; nested text sources and notes are
\* TextSourceType values (refi-qda-interfaces.ts)
SlotKind ==
    [user |-> "User", code |-> "Code", subcode |-> "Code", variable |-> "Variable",
     case |-> "Case", text |-> "Source", textSel |-> "Selection",
     textSelCoding |-> "Coding", textCoding |-> "Coding", picture |-> "Source",
     pictureDesc |-> "Source", pictureSel |-> "Selection", pdf |-> "Source",
     pdfSel |-> "Selection", pdfRep |-> "Source", audio |-> "Source",
     transcript |-> "Transcript", syncA |-> "SyncPoint", syncB |-> "SyncPoint",
     tSel |-> "Selection", tSelCoding |-> "Coding", audioSel |-> "Selection",
     video |-> "Source", videoSel |-> "Selection", note |-> "Note",
     noteCoding |-> "Coding", link |-> "Link", set |-> "Set", graph |-> "Graph",
     vertexA |-> "Vertex", vertexB |-> "Vertex", edge |-> "Edge"]

\* the kind of entity a typed reference field names: NoteRef, CodeRef,
\* SourceRef, SelectionRef, VariableRef (refi-qda-interfaces.ts:15-33)
RefKind ==
    [projectNote |-> "Note", codeNote |-> "Note", caseCode |-> "Code",
     caseVariable |-> "Variable", caseSource |-> "Source", caseSelection |-> "Selection",
     textNote |-> "Note", textVariable |-> "Variable", textCodingCode |-> "Code",
     textCodingNote |-> "Note", textSelNote |-> "Note", textSelCodingCode |-> "Code",
     transcriptNote |-> "Note", tSelNote |-> "Note", tSelCodingCode |-> "Code",
     linkNote |-> "Note", setCode |-> "Code", setSource |-> "Source", setNote |-> "Note"]

\* reference field k names the GUID of entity s
RetargetedProject(k, s) ==
    Skeleton(SlotGuid, [SlotRef EXCEPT ![k] = SlotGuid[s]], ValidOverride)

\* entity s carries the text t as its GUID
GuidTextProject(s, t) == Skeleton([SlotGuid EXCEPT ![s] = t], SlotRef, ValidOverride)

\* reference fields k and m both name a GUID that no entity owns
TwoDanglingProject(k, m) ==
    Skeleton(SlotGuid, [[SlotRef EXCEPT ![k] = UnownedGuid] EXCEPT ![m] = UnownedGuid],
             ValidOverride)

\* entities s and u both carry a malformed GUID
TwoMalformedProject(s, u) ==
    Skeleton([[SlotGuid EXCEPT ![s] = "not-a-guid"] EXCEPT ![u] = "not-a-guid"],
             SlotRef, ValidOverride)

ValidatorInputs ==
    {ValInput("clean", "", "", CleanProject)}
    \cup {ValInput("twoDangling", x[1], x[2], TwoDanglingProject(x[1], x[2])) :
             x \in {y \in RefSlots \X RefSlots : y[1] # y[2]}}
    \cup {ValInput("twoMalformed", x[1], x[2], TwoMalformedProject(x[1], x[2])) :
             x \in {y \in Slots \X Slots : y[1] # y[2]}}
    \cup {ValInput("wrongKind", x[1], x[2], RetargetedProject(x[1], x[2])) :
             x \in {y \in (DOMAIN RefKind) \X Slots : RefKind[y[1]] # SlotKind[y[2]]}}
    \cup {ValInput("guidText", x[1], x[2], GuidTextProject(x[1], x[2])) :
             x \in Slots \X (BracedGuids \cup MalformedGuids \cup {""})}
    \cup {ValInput("dup", x[1], x[2], DupProject(x[1], x[2])) :
             x \in {y \in Slots \X Slots : y[1] # y[2]}}
    \cup {ValInput("dangling", k, "", DanglingProject(k)) : k \in RefSlots}
    \cup {ValInput("nullEntry", x[1], x[2], NullEntryProject(x[1], x[2])) : x \in NullableLists}
    \cup {ValInput("emptyContainer", c, "", EmptyContainerProject(c)) : c \in EmptyContainers}

\* the export pipeline is not running
IdleExport ==
    /\ original = NoFields
    /\ projectRef = CallerRef
    /\ heap = (CallerRef :> NoFields)
    /\ copyRef = CallerRef
    /\ options = NoFields
    /\ exportOptions = NoFields
    /\ fsFiles = NoFields
    /\ outFile = Absent
    /\ pc = "idle"
    /\ idx = 1
    /\ EmptyPass
    /\ qdeContent = [threw |-> TRUE]
    /\ result = Pending
    /\ done = <<>>
    /\ missing = <<>>

NotRun == [done |-> FALSE]

InitVal ==
    /\ IdleExport
    /\ valInput \in ValidatorInputs
    /\ valOutput = NotRun

\* one call of validateProjectForExport(project)
Validate ==
    /\ valOutput = NotRun
    /\ valOutput' = [done |-> TRUE] @@ validateProjectForExport(valInput.project)
    /\ UNCHANGED <<valInput, exportVars>>

NextVal == Validate

SpecVal == InitVal /\ [][NextVal]_vars

-----------------------------------------------------------------------------
(* Properties of validateProjectForExport (specification SpecVal).          *)

Validated == valOutput # NotRun /\ valOutput.done

IssuesOfKind(kinds) == SelectSeq(valOutput.errors, LAMBDA e : e.kind \in kinds)

DuplicateIssues == IssuesOfKind({"DuplicateGuid"})

\* the issues that name the unowned GUID as a missing target
DanglingIssues ==
    SelectSeq(valOutput.errors,
              LAMBDA e : e.kind = "InvalidReference" /\ e.guid = UnownedGuid)

\* C8: when exactly two identifier-owning entities of any kinds share one
\* well-formed GUID, validateProjectForExport reports exactly one
\* duplicate-GUID issue, and the issue names the paths of both entities.
OneDuplicateIssueNamingBoth ==
    (Validated /\ valInput.kind = "dup")
    => /\ ~valOutput.threw
       /\ Len(DuplicateIssues) = 1
       /\ {DuplicateIssues[1].context, DuplicateIssues[1].other}
              = {SlotPath[valInput.a], SlotPath[valInput.b]}

\* C8, the case: a note carries the GUID of the user, the validator has run
NoteSharesGuidValidated ==
    /\ Validated
    /\ valInput.kind = "dup"
    /\ valInput.a = "user"
    /\ valInput.b = "note"
    /\ DuplicateIssues = <<>>

\* C9: a reference field whose target GUID no entity owns is reported by
\* exactly one dangling-reference issue, wherever the field sits; when every
\* target exists no reference issue is reported.
OneDanglingIssuePerField ==
    Validated
    => /\ valInput.kind = "dangling" => ~valOutput.threw /\ Len(DanglingIssues) = 1
       /\ valInput.kind = "clean"
              => ~valOutput.threw
                 /\ IssuesOfKind({"InvalidReference", "MissingReference"}) = <<>>

\* C9, the case: the NoteRef of a note is dangling, the validator has run
NoteRefDanglingValidated ==
    /\ Validated
    /\ valInput.kind = "dangling"
    /\ valInput.a = "noteNote"
    /\ DanglingIssues = <<>>

\* C10: validateProjectForExport returns a list of issues for every Project
\* value, also for a Users container without a User list, a CodeBook
\* without Codes and lists holding null entries; it never throws.
ValidatorNeverThrows == Validated => ~valOutput.threw

\* C10, the case: a Users container without its User list, the validator has run
UsersWithoutListValidated ==
    /\ Validated
    /\ valInput.kind = "emptyContainer"
    /\ valInput.a = "Users"
    /\ valOutput.threw

-----------------------------------------------------------------------------
(* The bounded inputs of the round trip parseQDEFile(buildQDEFile(p)): the  *)
(* canonical project, and the canonical project with one field of one       *)
(* entity set to the empty string, the empty list, zero or false, with one  *)
(* variable value replaced, or with one top-level list emptied.             *)

\* the field names of the entities of obj that carry the GUID
RECURSIVE FieldsOfGuid(_, _)
FieldsOfGuid(obj, guid) ==
    (IF Has(obj, "guid") /\ obj.guid = guid THEN {DOMAIN obj} ELSE {})
    \cup UNION {UNION {FieldsOfGuid(obj[f][i], guid) : i \in 1..Len(obj[f])} :
                f \in ListFields \cap DOMAIN obj}
    \cup UNION {FieldsOfGuid(obj[f], guid) : f \in ObjectFields \cap DOMAIN obj}

SlotFields(slot) == UNION FieldsOfGuid(CanonicalProject, SlotGuid[slot])

\* free-text fields, list-valued fields (refi-qda-interfaces.ts)
FreeTextFields == {"name", "id", "Description", "PlainTextContent"}
ListValuedFields ==
    (ListFields \ {"VariableValue"})
    \cup {"NoteRef", "CodeRef", "SourceRef", "SelectionRef",
          "MemberCode", "MemberSource", "MemberNote"}

\* CodeRef is a list on a case, a single reference on a coding
FieldVariations(names) ==
    {x \in Slots \X names :
        x[2] \in SlotFields(x[1]) /\ (x[2] = "CodeRef" => x[1] = "case")}

\* the values a VariableValue can hold, by the name of the variation
ValueVariations ==
    [emptyText |-> [TextValue |-> ""], falseBoolean |-> [BooleanValue |-> FALSE],
     zeroInteger |-> [IntegerValue |-> Num(0)], zeroFloat |-> [FloatValue |-> Num(0)],
     trueBoolean |-> [BooleanValue |-> TRUE], oneInteger |-> [IntegerValue |-> Num(1)]]

WithField(slot, f, v) ==
    Skeleton(SlotGuid, SlotRef, [NoOverride EXCEPT ![slot] = [x \in {f} |-> v]])

WithValue(v) ==
    WithField("case", "VariableValue",
              <<[VariableRef |-> Ref(SlotRef.caseVariable)] @@ ValueVariations[v]>>)

EmptiedListProject(c, f) == [CanonicalProject EXCEPT ![c][f] = <<>>]

RoundTripInputs ==
    {ValInput("canonical", "", "", CanonicalProject)}
    \cup {ValInput("emptyString", x[1], x[2], WithField(x[1], x[2], "")) :
             x \in FieldVariations(FreeTextFields)}
    \cup {ValInput("emptyList", x[1], x[2], WithField(x[1], x[2], <<>>)) :
             x \in FieldVariations(ListValuedFields)}
    \cup {ValInput("zero", x[1], x[2], WithField(x[1], x[2], Num(0))) :
             x \in FieldVariations(NumAttrs)}
    \cup {ValInput("false", x[1], x[2], WithField(x[1], x[2], FALSE)) :
             x \in FieldVariations(BoolAttrs)}
    \cup {ValInput("value", v, "", WithValue(v)) : v \in DOMAIN ValueVariations}
    \cup {ValInput("emptiedList", x[1], x[2], EmptiedListProject(x[1], x[2])) :
             x \in NullableLists}

InitRT ==
    /\ IdleExport
    /\ valInput \in RoundTripInputs
    /\ valOutput = NotRun

\* buildQDEFile(project), then parseQDEFile of the document
RoundTrip ==
    /\ valOutput = NotRun
    /\ LET qde == buildQDEFile(valInput.project)
       IN valOutput' =
              IF qde.threw THEN [done |-> TRUE, threw |-> TRUE]
              ELSE [done |-> TRUE, threw |-> FALSE, project |-> parseQDEFile(qde)]
    /\ UNCHANGED <<valInput, exportVars>>

NextRT == RoundTrip

SpecRT == InitRT /\ [][NextRT]_vars

-----------------------------------------------------------------------------
(* Properties of the round trip (specification SpecRT).                     *)

\* C6: for every Project built from the canonical model, empty lists,
\* zero-valued numbers, false booleans and empty strings included,
\* parseQDEFile(buildQDEFile(p)) is deep-equal to p (an absent field and an
\* undefined one are the same).
RoundTripIsIdentity ==
    Validated => ~valOutput.threw /\ valOutput.project = valInput.project

\* C6, the case: the name of the text source is the empty string; the round
\* trip has run and handed back a text source without a name
EmptyStringRoundTripped ==
    /\ Validated
    /\ valInput.kind = "emptyString"
    /\ valInput.a = "text"
    /\ valInput.b = "name"
    /\ ~valOutput.threw
    /\ ~Has(valOutput.project.Sources.TextSource[1], "name")

-----------------------------------------------------------------------------
(* Further properties of validateProjectForExport (specification SpecVal).  *)

ReferenceIssues == IssuesOfKind({"InvalidReference", "MissingReference"})

\* C11: a typed reference (NoteRef, CodeRef, SourceRef, SelectionRef,
\* VariableRef) whose target is the GUID of an entity of another kind is
\* reported as an issue by validateProjectForExport.
WrongKindReferenceReported ==
    (Validated /\ valInput.kind = "wrongKind")
    => ~valOutput.threw /\ ReferenceIssues # <<>>

\* C11, the case: the CodeRef of a case names the GUID of a text source; the
\* validator has run and returned no issue at all
CodeRefToSourceAccepted ==
    /\ Validated
    /\ valInput.kind = "wrongKind"
    /\ valInput.a = "caseCode"
    /\ valInput.b = "text"
    /\ ~valOutput.threw
    /\ valOutput.errors = <<>>

\* the text is a canonical GUID, bare or wrapped in braces
WellFormedGuidText(t) == t \in CanonicalGuids \cup BracedGuids

FormatIssuesAt(path) ==
    SelectSeq(valOutput.errors,
              LAMBDA e : e.kind = "InvalidGuidFormat" /\ e.context = path)

\* C12: the identifier of an entity is reported as an invalid-format issue
\* if and only if it is non-empty and not a canonical GUID, bare or wrapped
\* in braces; a malformed identifier is never reported as missing.
InvalidFormatIffMalformed ==
    (Validated /\ valInput.kind = "guidText")
    => /\ ~valOutput.threw
       /\ FormatIssuesAt(SlotPath[valInput.a]) # <<>>
              <=> (valInput.b # "" /\ ~WellFormedGuidText(valInput.b))

\* C12, the case: the GUID of the user is a canonical GUID in braces; the
\* validator has run and reported its format as invalid
BracedGuidRejected ==
    /\ Validated
    /\ valInput.kind = "guidText"
    /\ valInput.a = "user"
    /\ valInput.b \in BracedGuids
    /\ FormatIssuesAt(SlotPath.user) # <<>>

-----------------------------------------------------------------------------
(* The bounded inputs of parseQDEFile: the document of the canonical        *)
(* project as parseStringPromise reads it, and that document with one       *)
(* change: no Project root, text that is not XML, a required attribute      *)
(* left out, or the text of one numeric field replaced by non-numeric text. *)

\* the Project element of the canonical document
CanonicalElement == xml2js(prepareProjectForXml(CanonicalProject))

NonNumericText == [junk |-> "abc"]

\* the element x with field f of every entity carrying the GUID replaced by
\* v, or left out when drop is TRUE
RECURSIVE EditElement(_, _, _, _, _)
EditElement(x, guid, f, v, drop) ==
    LET hit == Has(x, "guid") /\ x.guid = guid
        names == IF hit /\ drop THEN DOMAIN x \ {f}
                 ELSE IF hit THEN DOMAIN x \cup {f} ELSE DOMAIN x
    IN [c \in names |->
           IF hit /\ c = f THEN v
           ELSE IF c \in ListFields
           THEN [x[c] EXCEPT !.items =
                    [i \in 1..Len(x[c].items) |->
                        EditElement(x[c].items[i], guid, f, v, drop)]]
           ELSE IF c \in ObjectFields THEN EditElement(x[c], guid, f, v, drop)
           ELSE x[c]]

WithoutGuid(slot) == EditElement(CanonicalElement, SlotGuid[slot], "guid", "", TRUE)

WithNonNumeric(slot, f) ==
    EditElement(CanonicalElement, SlotGuid[slot], f, NonNumericText, FALSE)

\* the VariableValue of the case with one value element of non-numeric text
WithNonNumericValue(f) ==
    EditElement(CanonicalElement, SlotGuid["case"], "VariableValue",
                [arr |-> FALSE,
                 items |-> <<[VariableRef |-> Ref(SlotRef.caseVariable)]
                             @@ [x \in {f} |-> NonNumericText]>>],
                FALSE)

Document(element) == [Project |-> element]

ParserInputs ==
    {ValInput("canonical", "", "", Document(CanonicalElement)),
     ValInput("noRoot", "", "", [Other |-> CanonicalElement]),
     ValInput("notXml", "", "", [malformed |-> TRUE]),
     ValInput("noName", "", "",
              Document([c \in DOMAIN CanonicalElement \ {"name"} |-> CanonicalElement[c]]))}
    \cup {ValInput("noGuid", s, "", Document(WithoutGuid(s))) : s \in Slots}
    \cup {ValInput("nonNumeric", x[1], x[2], Document(WithNonNumeric(x[1], x[2]))) :
             x \in FieldVariations(NumAttrs)}
    \cup {ValInput("nonNumericValue", f, "", Document(WithNonNumericValue(f))) :
             f \in {"IntegerValue", "FloatValue"}}

\* parseQDEFile (xml-parser.ts:47-67) on what parseStringPromise makes of the
\* text: a rejection and the missing root end in InvalidQDPXFileError
parseQDEFileOutcome(doc) ==
    IF Has(doc, "malformed") \/ ~ElemTruthy(doc, "Project")
    THEN [threw |-> TRUE, error |-> "InvalidQDPXFileError"]
    ELSE [threw |-> FALSE, project |-> convertXmlToProject(doc.Project)]

InitParse ==
    /\ IdleExport
    /\ valInput \in ParserInputs
    /\ valOutput = NotRun

\* one call of parseQDEFile(qdeContent)
Parse ==
    /\ valOutput = NotRun
    /\ valOutput' = [done |-> TRUE] @@ parseQDEFileOutcome(valInput.project)
    /\ UNCHANGED <<valInput, exportVars>>

NextParse == Parse

SpecParse == InitParse /\ [][NextParse]_vars

-----------------------------------------------------------------------------
(* Properties of parseQDEFile (specification SpecParse).                    *)

Parsed == Validated /\ ~valOutput.threw

\* every identifier-owning entity of the canonical project is there with a GUID
AllGuidsDefined(project) == addGuids(project) = {SlotGuid[s] : s \in Slots}

NumericValueFields == {"IntegerValue", "FloatValue"}

\* some numeric field of obj, at any depth, holds NaN
RECURSIVE ContainsNaN(_)
ContainsNaN(obj) ==
    \/ \E f \in (NumAttrs \cup NumericValueFields) \cap DOMAIN obj : obj[f] = NaN
    \/ \E f \in ListFields \cap DOMAIN obj :
           \E i \in 1..Len(obj[f]) : ContainsNaN(obj[f][i])
    \/ \E f \in ObjectFields \cap DOMAIN obj : ContainsNaN(obj[f])

\* C13: parseQDEFile fails with InvalidQDPXFileError when the document has
\* no Project root or lacks a required attribute (the name of the Project,
\* the guid of an entity); a Project it returns has all of them defined.
MalformedDocumentRejected ==
    Validated
    => /\ valInput.kind \in {"noRoot", "notXml", "noName", "noGuid"}
              => valOutput.threw /\ valOutput.error = "InvalidQDPXFileError"
       /\ ~valOutput.threw
              => Has(valOutput.project, "name") /\ AllGuidsDefined(valOutput.project)

\* C13, the case: the Project element has no name attribute; parseQDEFile
\* has returned a Project without a name
NamelessProjectParsed ==
    /\ Parsed
    /\ valInput.kind = "noName"
    /\ ~Has(valOutput.project, "name")

\* C14: when the text of an integer or float field is present and is not
\* decimal text, parseQDEFile surfaces an error; no Project it returns holds
\* NaN in a numeric field.
NonNumericTextRejected ==
    Validated
    => /\ valInput.kind \in {"nonNumeric", "nonNumericValue"} => valOutput.threw
       /\ ~valOutput.threw => ~ContainsNaN(valOutput.project)

\* C14, the case: startPosition of a plain text selection is "abc";
\* parseQDEFile has returned a Project holding NaN there
NaNParsed ==
    /\ Parsed
    /\ valInput.kind = "nonNumeric"
    /\ valInput.a = "textSel"
    /\ valInput.b = "startPosition"
    /\ valOutput.project.Sources.TextSource[1].PlainTextSelection[1].startPosition = NaN

-----------------------------------------------------------------------------
(* Address classification and resolution: getSourceType and resolvePath     *)
(* (xml-parser.ts:1188-1236) and resolveSourcePath                          *)
(* (source-processor.ts:287-314), applied to bounded address strings.       *)

MaxAddressLen == 3

\* the tokens address strings are made of; "internal:" is text that looks
\* like a scheme and is none
AddressTokens ==
    {SchemeInternal, SchemeRelative, SchemeAbsolute, "internal:", Sep, DotDot, "a.mp4", "base"}

AddressInputs == UNION {[1..n -> AddressTokens] : n \in 0..MaxAddressLen}

\* a base path argument: undefined, the empty string, or a directory
Undefined == [defined |-> FALSE]
Defined(text) == [defined |-> TRUE, text |-> text]
BaseInputs == {Undefined, Defined(<<>>), Defined(BaseDir)}

\* a mutation of getSourceType: a string without a scheme is an embedded file
getSourceTypeDefaultInternal(pathString) ==
    IF startsWith(pathString, SchemeRelative) THEN "relative"
    ELSE IF startsWith(pathString, SchemeAbsolute) THEN "absolute"
    ELSE "internal"

getSourceType(pathString) ==
    IF startsWith(pathString, SchemeInternal) THEN "internal"
    ELSE IF startsWith(pathString, SchemeRelative) THEN "relative"
    ELSE IF startsWith(pathString, SchemeAbsolute) THEN "absolute"
    ELSE "relative"

\* path.resolve(basePath, p) where basePath may be undefined: the arguments
\* are read right to left until the path is absolute, and an argument that
\* is not a string raises a TypeError
pathResolveThrows(base, p) == ~base.defined /\ ~IsAbsolutePath(p)

\* resolvePath(pathString, basePath, sourceType): every error raised inside
\* is rethrown as PathResolutionError (xml-parser.ts:1233-1235)
resolvePath(pathString, base, sourceType) ==
    LET stripped == substring(pathString, 11)
        target == IF sourceType = "relative" /\ startsWith(stripped, Sep)
                  THEN substring(stripped, 1) ELSE stripped
    IN IF sourceType = "absolute"
       THEN [threw |-> FALSE, path |-> stripped]
       ELSE IF pathResolveThrows(base, target)
       THEN [threw |-> TRUE, error |-> "PathResolutionError"]
       ELSE [threw |-> FALSE,
             path |-> pathResolve(IF base.defined THEN base.text ELSE <<>>, target)]

\* the basePath parameter of resolveSourcePath: undefined and "" are both falsy
Falsy(base) == ~base.defined \/ base.text = <<>>

\* the outcome of resolveSourcePath with the class of the error it raises
resolveSourcePathOutcome(pathString, base) ==
    LET r == resolveSourcePath(pathString, IF Falsy(base) THEN <<>> ELSE base.text)
    IN IF r.threw THEN [threw |-> TRUE, error |-> "ExportError"]
       ELSE [threw |-> FALSE, path |-> r.path]

InitAddr ==
    /\ IdleExport
    /\ valInput \in [address : AddressInputs, base : BaseInputs]
    /\ valOutput = NotRun

Classify ==
    /\ valOutput = NotRun
    /\ valOutput' = [done |-> TRUE, op |-> "getSourceType",
                     type |-> getSourceType(valInput.address)]
    /\ UNCHANGED <<valInput, exportVars>>

ResolveImport ==
    /\ valOutput = NotRun
    /\ valOutput' = [done |-> TRUE, op |-> "resolvePath"]
                    @@ resolvePath(valInput.address, valInput.base,
                                   getSourceType(valInput.address))
    /\ UNCHANGED <<valInput, exportVars>>

ResolveExport ==
    /\ valOutput = NotRun
    /\ valOutput' = [done |-> TRUE, op |-> "resolveSourcePath"]
                    @@ resolveSourcePathOutcome(valInput.address, valInput.base)
    /\ UNCHANGED <<valInput, exportVars>>

NextAddr == Classify \/ ResolveImport \/ ResolveExport

SpecAddr == InitAddr /\ [][NextAddr]_vars

-----------------------------------------------------------------------------
(* Properties of address handling (specification SpecAddr).                 *)

Did(op) == Validated /\ valOutput.op = op

\* C15: getSourceType returns exactly one of internal, relative, absolute
\* for every string: internal iff the string starts with "internal://",
\* absolute iff it starts with "absolute://", relative in every other case.
ClassificationTotalExclusive ==
    Did("getSourceType")
    => /\ valOutput.type \in {"internal", "relative", "absolute"}
       /\ valOutput.type = "internal" <=> startsWith(valInput.address, SchemeInternal)
       /\ valOutput.type = "absolute" <=> startsWith(valInput.address, SchemeAbsolute)
       /\ valOutput.type = "relative"
              <=> /\ ~startsWith(valInput.address, SchemeInternal)
                  /\ ~startsWith(valInput.address, SchemeAbsolute)

\* C15, the case: a non-empty string without a scheme has been classified
PrefixlessClassified ==
    /\ Did("getSourceType")
    /\ valInput.address # <<>>
    /\ valInput.address[1] \notin Schemes
    /\ valOutput.type = "relative"


\* C16: resolving a relative address (relative:// or without a scheme) when
\* no base path is supplied fails with PathResolutionError, on import
\* (resolvePath) and on export (resolveSourcePath); neither returns a path.
RelativeWithoutBaseFails ==
    ( /\ Did("resolvePath") \/ Did("resolveSourcePath")
      /\ getSourceType(valInput.address) = "relative"
      /\ ~valInput.base.defined )
    => /\ valOutput.threw
       /\ valOutput.error = "PathResolutionError"

\* C16, the case: resolveSourcePath got an address without a scheme and no
\* base path, and returned a path
PrefixlessReturnedWithoutBase ==
    /\ Did("resolveSourcePath")
    /\ valInput.address = <<"a.mp4">>
    /\ ~valInput.base.defined
    /\ ~valOutput.threw
    /\ valOutput.path = <<"a.mp4">>


-----------------------------------------------------------------------------
(* The overwrite check of exportQDPX (specification Spec).                  *)

OverwriteRequested == Has(options, "overwrite") /\ options.overwrite

\* C17: when a file exists at outputPath and the overwrite option is false
\* or unset, exportQDPX throws ExportError before any later stage runs and the
\* existing file stays as it was; when overwrite is true the export proceeds
\* past the check.
ExistingOutputProtected ==
    [][ /\ (outFile = OldContainer /\ ~OverwriteRequested)
            => /\ outFile' = OldContainer
               /\ pc = "start" => /\ pc' = "done"
                                  /\ result' = ExportError("OutputExists", <<>>)
                                  /\ done' = <<>>
                                  /\ EmptyPass'
        /\ (outFile = OldContainer /\ OverwriteRequested /\ pc = "start")
            => /\ pc' = "validate"
               /\ done' = <<"overwriteCheck">>
               /\ result' = Pending ]_vars

\* C17, the case: an export onto an existing file with overwrite set to false
\* has been refused and the file is the old one
ExportOntoExistingRefused ==
    /\ Has(options, "overwrite") /\ ~options.overwrite
    /\ Failed("OutputExists")
    /\ outFile = OldContainer


-----------------------------------------------------------------------------
(* Two exportQDPX calls on one Project instance, interleaved at the steps   *)
(* of the pipeline (options.ts:97-156). Each call holds its own locals;     *)
(* the heap and the filesystem are shared. Both output paths lie in the     *)
(* same directory.                                                          *)

Calls == {"A", "B"}

\* the option objects the two calls are given
PairOptions ==
    << NoFields,
       [includeExternalSources |-> TRUE, validateBeforeExport |-> FALSE,
        exportBasePath |-> BaseDir],
       [includeExternalSources |-> TRUE, validateBeforeExport |-> FALSE,
        maxInternalFileSize |-> MaxConfiguredSize, onMissingSource |-> "returnsFalse"] >>

\* the two calls' options; the calls are interchangeable, so one order of
\* each pair is enough
PairInputs ==
    {[A |-> PairOptions[ij[1]], B |-> PairOptions[ij[2]]] :
        ij \in {x \in (DOMAIN PairOptions) \X (DOMAIN PairOptions) : x[1] <= x[2]}}

\* the projects the two calls share: no basePath of their own
PairProjects == {p \in InputProjects : ~Has(p, "basePath")}

PairFilesystems ==
    {NoFields, (<<"base", "a.mp4">> :> MaxFileSize) @@ (<<"base", "f.txt">> :> 1)}

\* the locals of a call that has not started
NewCall(opts) ==
    [options |-> opts, ref |-> CallerRef, exportOptions |-> NoFields, out |-> Absent,
     pc |-> "start", idx |-> 1,
     pass |-> [warnings |-> <<>>, externalSources |-> <<>>, sourceFiles |-> <<>>,
               sourceInfoList |-> <<>>, uuidCount |-> 0],
     qde |-> [threw |-> TRUE], result |-> Pending, stages |-> <<>>]

CallThrow(c, error) == [c EXCEPT !.result = error, !.pc = "done"]

CallAdvance(c, stage) ==
    [c EXCEPT !.pc = StageAfter(c.pc), !.stages = Append(c.stages, stage)]

\* the next step of a call on heap h: the call's locals and the heap after it
exportStep(c, h, fs, ok) ==
    CASE c.pc = "start" ->
            LET n == deepCopy(h, CallerRef)
                eo == configureOptions(c.options)
                copy == n.heap[n.ref]
                c1 == [c EXCEPT !.ref = n.ref, !.exportOptions = eo]
            IN IF c.out.exists /\ ~eo.overwrite
               THEN [call |-> CallThrow(c1, ExportError("OutputExists", <<>>)), heap |-> n.heap]
               ELSE [call |-> CallAdvance(c1, "overwriteCheck"),
                     heap |-> [n.heap EXCEPT ![n.ref] =
                                 IF ~TruthyPath(copy, "basePath") /\ eo.exportBasePath # <<>>
                                 THEN SetField(copy, "basePath", eo.exportBasePath)
                                 ELSE copy]]
      [] c.pc = "validate" ->
            LET v == validateProjectForExport(h[c.ref])
            IN [heap |-> h,
                call |-> IF ~c.exportOptions.validateBeforeExport
                         THEN CallAdvance(c, "validate")
                         ELSE IF v.threw
                         THEN CallThrow(c, ExportError("FailedToExport", <<>>))
                         ELSE IF v.errors # <<>>
                         THEN CallThrow(c, ExportError("ValidationFailed", v.errors))
                         ELSE CallAdvance(c, "validate")]
      [] c.pc = "sources" ->
            IF c.idx <= Len(ProcessingOrder(h[c.ref]))
            THEN LET pos == ProcessingOrder(h[c.ref])[c.idx]
                     st == processSource(SourceAt(h[c.ref], pos), pos.type,
                                         c.exportOptions, c.pass, fs)
                 IN [heap |-> h, call |-> [c EXCEPT !.pass = st, !.idx = c.idx + 1]]
            ELSE [heap |-> h, call |-> CallAdvance(c, "sources")]
      [] c.pc = "rewrite" ->
            IF updateProjectSourcePathsThrows(h[c.ref])
            THEN [heap |-> h, call |-> CallThrow(c, ExportError("FailedToExport", <<>>))]
            ELSE [heap |-> [h EXCEPT ![c.ref] =
                               updateProjectSourcePaths(@, c.pass.sourceInfoList)],
                  call |-> CallAdvance(c, "rewrite")]
      [] c.pc = "serialize" ->
            LET qde == buildQDEFile(h[c.ref])
            IN [heap |-> h,
                call |-> IF qde.threw
                         THEN CallThrow(c, ExportError("FailedToBuild", <<>>))
                         ELSE [CallAdvance(c, "serialize") EXCEPT !.qde = qde]]
      [] c.pc = "write" ->
            [heap |-> h,
             call |-> IF ok
                      THEN [CallAdvance(c, "write") EXCEPT
                               !.out = [exists |-> TRUE,
                                        content |-> [qde |-> c.qde,
                                                     files |-> c.pass.sourceFiles]],
                               !.result = Success(c.pass.externalSources, c.pass.warnings)]
                      ELSE CallThrow(c, ExportError("FailedToCreate", <<>>))]

InitPair ==
    /\ original \in PairProjects
    /\ projectRef = CallerRef
    /\ heap = (CallerRef :> original)
    /\ fsFiles \in PairFilesystems
    /\ copyRef = CallerRef
    /\ options = NoFields
    /\ exportOptions = NoFields
    /\ outFile = Absent
    /\ pc = "idle"
    /\ idx = 1
    /\ EmptyPass
    /\ qdeContent = [threw |-> TRUE]
    /\ result = Pending
    /\ done = <<>>
    /\ missing = <<>>
    /\ valInput \in PairInputs
    /\ valOutput = [k \in Calls |-> NewCall(valInput[k])]

\* call k runs up to its next await
StepCall(k) ==
    /\ valOutput[k].pc # "done"
    /\ \E ok \in BOOLEAN :
          LET n == exportStep(valOutput[k], heap, fsFiles, ok)
          IN /\ valOutput' = [valOutput EXCEPT ![k] = n.call]
             /\ heap' = n.heap
    /\ UNCHANGED <<projectRef, copyRef, original, options, exportOptions, fsFiles,
                   outFile, pc, idx, warnings, externalSources, sourceFiles,
                   sourceInfoList, uuidCount, qdeContent, result, done, missing, valInput>>

StepA == StepCall("A")
StepB == StepCall("B")

NextPair == StepA \/ StepB

SpecPair == InitPair /\ [][NextPair]_vars

\* what a call has, apart from the identity of its copy
CallView(c, h) == [[c EXCEPT !.ref = CallerRef] EXCEPT !.options = h[c.ref]]

\* the views a call passes through when it runs alone on the project
RECURSIVE AloneViews(_, _, _)
AloneViews(c, h, fs) ==
    {CallView(c, h)}
    \cup IF c.pc = "done" THEN {}
         ELSE IF c.pc = "write"
         THEN {CallView(exportStep(c, h, fs, ok).call, h) : ok \in BOOLEAN}
         ELSE LET n == exportStep(c, h, fs, TRUE)
              IN AloneViews(n.call, n.heap, fs)

\* C18: two exportQDPX calls on the same Project instance, interleaved at
\* will, do not interfere: at every point each call's warnings, external
\* sources, files, copy of the project, manifest and result are ones the
\* call has at some point when it runs alone, and the shared Project
\* instance keeps its value.
InterleavedExportsIndependent ==
    /\ heap[CallerRef] = original
    /\ \A k \in Calls :
          CallView(valOutput[k], heap)
              \in AloneViews(NewCall(valInput[k]), (CallerRef :> original), fsFiles)

\* C18, the case: both calls wrote their containers, with different policies
\* and different file sets, A having made its copy after B made its own
BothExportsWritten ==
    /\ \A k \in Calls : valOutput[k].pc = "done" /\ valOutput[k].result.status = "success"
    /\ valOutput["A"].ref = "copy2"
    /\ valOutput["A"].pass.sourceFiles # valOutput["B"].pass.sourceFiles
    /\ valOutput["A"].pass.sourceFiles # <<>>
    /\ valOutput["B"].pass.externalSources # <<>>


-----------------------------------------------------------------------------
(* The external-source check of importQDPX (part_002:55-63) and             *)
(* resolveExternalSources (xml-parser.ts:1094-1180), applied to the Project *)
(* the parser returned for a container stored in /in.                       *)

QdpxFilePath == <<Sep, "in", Sep, "p.qdpx">>

\* getAllSourcePaths: the sources that have a path, kind by kind
getAllSourcePaths(project) ==
    IF ~Has(project, "Sources") THEN <<>>
    ELSE ConcatAll(
        [k \in 1..Len(SourceKinds) |->
            IF ~Has(project.Sources, SourceKinds[k]) THEN <<>>
            ELSE LET withPath == SelectSeq(project.Sources[SourceKinds[k]],
                                           LAMBDA s : TruthyPath(s, "path"))
                 IN [i \in 1..Len(withPath) |->
                        [guid |-> withPath[i].guid, sourcePath |-> withPath[i].path,
                         sourceType |-> getSourceType(withPath[i].path)]]])

\* fs.promises.access(p, F_OK) succeeds: p is a file, or a directory that
\* holds one; the container is a file too (part_002:27)
AccessOk(fs, p) ==
    \/ FileExists(fs, p)
    \/ \E f \in DOMAIN fs \cup {FsKey(QdpxFilePath)} :
          /\ Len(FsKey(p)) <= Len(f)
          /\ SubSeq(f, 1, Len(FsKey(p))) = FsKey(p)

\* resolveExternalSources(project, basePath)
resolveExternalSources(project, basePath, fs) ==
    LET external == SelectSeq(getAllSourcePaths(project),
                              LAMBDA s : s.sourceType \in {"relative", "absolute"})
        resolved == [i \in 1..Len(external) |->
                        resolvePath(external[i].sourcePath, Defined(basePath),
                                    external[i].sourceType)]
    IN IF \E i \in 1..Len(resolved) : resolved[i].threw
       THEN [threw |-> TRUE, error |-> "PathResolutionError"]
       ELSE [threw |-> FALSE,
             missingPaths |->
                LET paths == [i \in 1..Len(resolved) |-> resolved[i].path]
                IN SelectSeq(paths, LAMBDA p : ~AccessOk(fs, p))]

\* lines 55-63 of importQDPX; an error that is not InvalidQDPXFileError is
\* wrapped into one (lines 69-74)
importExternalCheck(project, opts, fs) ==
    LET externalBasePath ==
            IF PathOption(opts, "externalBasePath") # <<>> THEN opts.externalBasePath
            ELSE IF TruthyPath(project, "basePath")
            THEN pathResolve(pathDirname(QdpxFilePath), project.basePath)
            ELSE pathDirname(QdpxFilePath)
        r == resolveExternalSources(project, externalBasePath, fs)
    IN IF ~(Has(opts, "resolveExternalSources") /\ opts.resolveExternalSources)
       THEN [threw |-> FALSE, project |-> project, missingExternalSources |-> <<>>]
       ELSE IF r.threw
       THEN [threw |-> TRUE, error |-> "InvalidQDPXFileError"]
       ELSE [threw |-> FALSE, project |-> project,
             missingExternalSources |-> r.missingPaths]

ImportOptions ==
    {a @@ b : a \in OptionChoices("resolveExternalSources", {TRUE}),
              b \in OptionChoices("externalBasePath", {BaseDir})}

InitImport ==
    /\ IdleExport
    /\ valInput \in [project : InputProjects, options : ImportOptions,
                     fs : InputFilesystems]
    /\ valOutput = NotRun

Import ==
    /\ valOutput = NotRun
    /\ valOutput' = [done |-> TRUE]
                    @@ importExternalCheck(valInput.project, valInput.options, valInput.fs)
    /\ UNCHANGED <<valInput, exportVars>>

NextImport == Import

SpecImport == InitImport /\ [][NextImport]_vars

\* the base directory importQDPX resolves against
ExternalBase ==
    IF Has(valInput.options, "externalBasePath") THEN valInput.options.externalBasePath
    ELSE IF TruthyPath(valInput.project, "basePath")
    THEN pathResolve(pathDirname(QdpxFilePath), valInput.project.basePath)
    ELSE pathDirname(QdpxFilePath)

\* the file an external address names: the text after the scheme, or the
\* whole address when it has none, against the base directory
FileNamedBy(address) ==
    IF startsWith(address, SchemeAbsolute) THEN substring(address, 11)
    ELSE IF startsWith(address, SchemeRelative)
    THEN pathResolve(ExternalBase,
                     IF startsWith(substring(address, 11), Sep)
                     THEN substring(address, 12) ELSE substring(address, 11))
    ELSE pathResolve(ExternalBase, address)

\* the addresses of the project's sources, in source order
SourceAddresses ==
    LET all == AllSources(valInput.project)
        withPath == SelectSeq(all, LAMBDA s : TruthyPath(s, "path"))
    IN [i \in 1..Len(withPath) |-> withPath[i].path]

ExpectedMissing ==
    LET external == SelectSeq(SourceAddresses, LAMBDA a : ~startsWith(a, SchemeInternal))
        files == [i \in 1..Len(external) |-> FileNamedBy(external[i])]
    IN SelectSeq(files, LAMBDA p : ~FileExists(valInput.fs, p))

ResolveRequested ==
    Validated /\ Has(valInput.options, "resolveExternalSources")

\* C19: with resolveExternalSources enabled importQDPX does not fail for a
\* missing external file, and missingExternalSources is exactly the list, in
\* source order, of the resolved paths of the relative://, absolute:// and
\* scheme-less addresses whose file does not exist; internal:// addresses
\* are never listed.
MissingExternalSourcesExact ==
    ResolveRequested
    => /\ ~valOutput.threw
       /\ valOutput.missingExternalSources = ExpectedMissing

\* C19, the case: a source with the scheme-less address a.mp4 whose file is
\* not there was imported and is not listed
MissingPrefixlessNotListed ==
    /\ ResolveRequested
    /\ ~valOutput.threw
    /\ SourceAddresses = << <<"a.mp4">> >>
    /\ ~FileExists(valInput.fs, pathResolve(ExternalBase, <<"a.mp4">>))
    /\ valOutput.missingExternalSources = <<>>


-----------------------------------------------------------------------------
(* The size threshold without a configured maxInternalFileSize, through     *)
(* exportQDPX (options.ts:106-133) and through a direct call of             *)
(* processSourcesForExport (source-processor.ts:64-203).                    *)

\* the loops of processSourcesForExport from position i on
RECURSIVE processSourcesFrom(_, _, _, _, _)
processSourcesFrom(project, opts, fs, i, st) ==
    IF i > Len(ProcessingOrder(project)) THEN st
    ELSE LET pos == ProcessingOrder(project)[i]
         IN processSourcesFrom(project, opts, fs, i + 1,
                               processSource(SourceAt(project, pos), pos.type, opts, st, fs))

processSourcesForExport(project, opts, fs) ==
    processSourcesFrom(project, opts, fs, 1, NewCall(opts).pass)

\* a small file, and files at and just under the default threshold
ThresholdFilesystems ==
    {(<<"base", "a.mp4">> :> size) @@ (<<"base", "f.txt">> :> 1) :
        size \in {MaxFileSize, FallbackMaxInternalFileSize, DefaultMaxInternalFileSize}}

ThresholdOptions ==
    {[includeExternalSources |-> TRUE] @@ a @@ b :
        a \in OptionChoices("maxInternalFileSize", {MaxConfiguredSize}),
        b \in OptionChoices("exportBasePath", {BaseDir})}

InitSize ==
    /\ IdleExport
    /\ valInput \in [project : InputProjects, options : ThresholdOptions,
                     fs : ThresholdFilesystems]
    /\ valOutput = NotRun

\* the packaging pass as exportQDPX runs it: on the options with defaults
ViaExport ==
    /\ valOutput = NotRun
    /\ valOutput' = [done |-> TRUE, route |-> "exportQDPX"]
                    @@ processSourcesForExport(valInput.project,
                                               configureOptions(valInput.options),
                                               valInput.fs)
    /\ UNCHANGED <<valInput, exportVars>>

\* processSourcesForExport called with the caller's options as they are
Direct ==
    /\ valOutput = NotRun
    /\ valOutput' = [done |-> TRUE, route |-> "processSourcesForExport"]
                    @@ processSourcesForExport(valInput.project, valInput.options,
                                               valInput.fs)
    /\ UNCHANGED <<valInput, exportVars>>

NextSize == ViaExport \/ Direct

SpecSize == InitSize /\ [][NextSize]_vars

\* the processed external sources whose file has the given size
ExternalOfSize(size) ==
    {info \in Range(valOutput.sourceInfoList) :
        /\ ~startsWith(AddressOf(valInput.project, info.guid), SchemeInternal)
        /\ FileExists(valInput.fs, info.originalPath)
        /\ FileSize(valInput.fs, info.originalPath) = size}

\* C20: when maxInternalFileSize is not configured the size threshold is
\* 2147483647 on every path: with includeExternalSources true a file of
\* exactly 2147483647 bytes is embedded, through exportQDPX and through
\* processSourcesForExport called with maxInternalFileSize undefined.
DefaultThresholdOnEveryPath ==
    (Validated /\ ~Has(valInput.options, "maxInternalFileSize"))
    => \A info \in ExternalOfSize(DefaultMaxInternalFileSize) :
          /\ info.sourceType = "internal"
          /\ info.originalPath \notin Range(valOutput.externalSources)

\* C20, the case: a direct call without maxInternalFileSize kept a file of
\* exactly 2147483647 bytes external
DefaultSizedFileKeptExternal ==
    /\ Validated
    /\ valOutput.route = "processSourcesForExport"
    /\ ~Has(valInput.options, "maxInternalFileSize")
    /\ \E info \in ExternalOfSize(DefaultMaxInternalFileSize) :
          /\ info.sourceType # "internal"
          /\ info.originalPath \in Range(valOutput.externalSources)


-----------------------------------------------------------------------------
(* The order of the issues of validateProjectForExport (specification       *)
(* SpecVal).                                                                *)

\* the place of an issue's entity kind in the documented order; 0 for the
\* project itself
KindRank(context) ==
    LET c == IF context # <<>> /\ context[1] = "project" THEN Tail(context) ELSE context
        IN IF c = <<>> THEN 0
           ELSE CASE c[1] = "Users" -> 1
                  [] c[1] = "CodeBook" -> 2
                  [] c[1] = "Variables" -> 3
                  [] c[1] = "Cases" -> 4
                  [] c[1] = "Sources" ->
                        4 + (CHOOSE k \in 1..Len(SourceKinds) : SourceKinds[k] = c[2])
                  [] c[1] = "Sets" -> 10
                  [] c[1] = "Graphs" -> 11
                  [] c[1] = "Links" -> 12
                  [] OTHER -> 0

IsIndex(t) == \E i \in 1..6 : IdxStr(i) = t
IndexOf(t) == CHOOSE i \in 1..6 : IdxStr(i) = t

\* context a lies before context b: an earlier kind, or an earlier element
\* of the same sibling list
RECURSIVE EarlierSibling(_, _)
EarlierSibling(a, b) ==
    IF a = <<>> \/ b = <<>> THEN FALSE
    ELSE IF Head(a) = Head(b) THEN EarlierSibling(Tail(a), Tail(b))
    ELSE IsIndex(Head(a)) /\ IsIndex(Head(b)) /\ IndexOf(Head(a)) < IndexOf(Head(b))

Before(a, b) ==
    \/ KindRank(a) < KindRank(b)
    \/ KindRank(a) = KindRank(b) /\ EarlierSibling(a, b)

InOrder(issues) ==
    \A i \in 1..Len(issues) : \A j \in (i + 1)..Len(issues) :
        ~Before(issues[j].context, issues[i].context)

IdentifierIssues == IssuesOfKind({"MissingGuid", "InvalidGuidFormat", "DuplicateGuid"})

\* C21: the issues of validateProjectForExport follow one entity-kind order
\* in the identifier pass and in the reference pass (Users, CodeBook,
\* Variables, Cases, Sources by variant, Sets, Graphs, Links) and the stored
\* order within a sibling list; no issue about a Graph comes after an issue
\* about a Link in the same pass.
IssuesInDocumentedOrder ==
    (Validated /\ ~valOutput.threw)
    => InOrder(IdentifierIssues) /\ InOrder(ReferenceIssues)

\* C21, the case: a link and a vertex both name a missing target, and the
\* issue about the link came first
LinkIssueBeforeGraphIssue ==
    /\ Validated
    /\ valInput.kind = "twoDangling"
    /\ Len(ReferenceIssues) = 2
    /\ KindRank(ReferenceIssues[1].context) = 12
    /\ KindRank(ReferenceIssues[2].context) = 11


-----------------------------------------------------------------------------
(* The order of the packaging pass (specification Spec).                    *)

DocumentedKindOrder ==
    <<"TextSource", "PictureSource", "PDFSource", "AudioSource", "VideoSource">>

\* the sources of the caller's project, kind by kind in the documented
\* order, each list in its stored order
SourcesInDocumentedOrder ==
    ConcatAll([k \in 1..Len(DocumentedKindOrder) |->
        LET list == SourcesOf(original, DocumentedKindOrder[k])
        IN [i \in 1..Len(list) |-> [type |-> DocumentedKindOrder[k], source |-> list[i]]]])

\* what the i-th of these sources adds when it is processed on its own
OwnEntries(i) ==
    processSource(SourcesInDocumentedOrder[i].source, SourcesInDocumentedOrder[i].type,
                  exportOptions, NewCall(NoFields).pass, fsFiles)

InfoGuids(list) == [i \in 1..Len(list) |-> list[i].guid]

\* C22: processSourcesForExport handles the sources one at a time, in the
\* order TextSource, PictureSource, PDFSource, AudioSource, VideoSource and
\* in stored order within a kind: at every point of the pass and at its end
\* the warnings, the external sources and the source records are those of
\* the sources handled so far, each source's entries complete and in that
\* order.
SourcesProcessedInOrder ==
    pc \in {"sources", "rewrite"}
    => /\ idx - 1 <= Len(SourcesInDocumentedOrder)
       /\ warnings = ConcatAll([i \in 1..(idx - 1) |-> OwnEntries(i).warnings])
       /\ externalSources = ConcatAll([i \in 1..(idx - 1) |-> OwnEntries(i).externalSources])
       /\ InfoGuids(sourceInfoList)
             = ConcatAll([i \in 1..(idx - 1) |-> InfoGuids(OwnEntries(i).sourceInfoList)])

\* C22, the case: two sources of different kinds were handled, the first
\* left a warning and the second an external source
WarningThenExternalSource ==
    /\ pc = "rewrite"
    /\ idx = 3
    /\ SourcesInDocumentedOrder[1].type # SourcesInDocumentedOrder[2].type
    /\ warnings = OwnEntries(1).warnings /\ warnings # <<>>
    /\ externalSources = OwnEntries(2).externalSources /\ externalSources # <<>>


-----------------------------------------------------------------------------
(* Exports of projects whose sources cover the cases of the packaging pass: *)
(* embedded sources with and without a currentPath, external sources with   *)
(* and without one, and a text source that carries a path. The steps are    *)
(* those of Spec.                                                           *)

PackTemplates ==
    << [type |-> "TextSource",
        source |-> SetField(ImportedP1.Sources.TextSource[1], "path",
                            <<SchemeRelative, "a.mp4">>)],
       [type |-> "VideoSource",
        source |-> [guid |-> "g05", name |-> "held",
                    path |-> <<SchemeInternal, "f.txt">>,
                    currentPath |-> <<SchemeAbsolute>> \o BaseDir \o <<Sep, "f.txt">>]],
       [type |-> "PictureSource",
        source |-> [guid |-> "g07", name |-> "bare", path |-> <<SchemeInternal, "f.txt">>]],
       [type |-> "AudioSource",
        source |-> [guid |-> "g04", name |-> "rec",
                    path |-> <<SchemeAbsolute>> \o BaseDir \o <<Sep, "a.mp4">>]],
       [type |-> "PDFSource",
        source |-> [guid |-> "g08", name |-> "seen",
                    path |-> <<SchemeRelative, "a.mp4">>,
                    currentPath |-> OtherDir \o <<Sep, "a.mp4">>]],
       [type |-> "PictureSource",
        source |-> [guid |-> "g02", name |-> "pic", path |-> <<SchemeRelative, "a.mp4">>]] >>

PackTemplatesOfKind(chosen, type) ==
    LET picked == SelectSeq([i \in 1..Len(PackTemplates) |-> i],
                            LAMBDA i : i \in chosen /\ PackTemplates[i].type = type)
    IN [k \in 1..Len(picked) |-> PackTemplates[picked[k]].source]

PackProjects ==
    {[name |-> "P1"]
     @@ OptF(basePath # <<>>, "basePath", basePath)
     @@ [Sources |-> [t \in {PackTemplates[i].type : i \in chosen} |->
                         PackTemplatesOfKind(chosen, t)]] :
        chosen \in {c \in SUBSET (1..Len(PackTemplates)) :
                       c # {} /\ Cardinality(c) <= MaxSources},
        basePath \in {<<>>, OtherDir}}

PackOptions ==
    {[validateBeforeExport |-> FALSE] @@ a @@ b :
        a \in OptionChoices("includeExternalSources", {TRUE}),
        b \in OptionChoices("exportBasePath", {BaseDir})}

PackFilesystems == {NoFields, (<<"base", "a.mp4">> :> 1) @@ (<<"base", "f.txt">> :> 1)}

InitPack ==
    /\ original \in PackProjects
    /\ projectRef = CallerRef
    /\ heap = (CallerRef :> original)
    /\ copyRef = CallerRef
    /\ options \in PackOptions
    /\ exportOptions = NoFields
    /\ fsFiles \in PackFilesystems
    /\ outFile = Absent
    /\ pc = "start"
    /\ idx = 1
    /\ EmptyPass
    /\ qdeContent = [threw |-> TRUE]
    /\ result = Pending
    /\ done = <<>>
    /\ missing = <<>>
    /\ valInput = NoFields
    /\ valOutput = NoFields

SpecPack == InitPack /\ [][Next]_vars

\* the sources of the caller's project whose address is internal://
InternalSources ==
    {s \in Range(AllSources(original)) :
        TruthyPath(s, "path") /\ startsWith(s.path, SchemeInternal)}

\* the file set holds an entry sources/F for the internal source s
HasPayload(s) ==
    \E f \in Range(sourceFiles) : f.name = <<"sources/">> \o substring(s.path, 11)

\* the pass is over and the addresses are rewritten
Repackaged == pc \in {"serialize", "write"} \/ Succeeded

\* C23: for every source whose address is already internal://F, packaging
\* keeps the address internal://F and does not fail the export, and whenever
\* no file-set entry sources/F is produced for it (also when it has no
\* currentPath) a warning is recorded for that source.
InternalSourceKeptOrWarned ==
    /\ Finished => (Succeeded \/ Failed("FailedToCreate"))
    /\ Repackaged
       => \A s \in InternalSources :
             /\ AddressOf(heap[copyRef], s.guid) = s.path
             /\ HasPayload(s)
                \/ \E w \in Range(warnings) :
                      /\ w.kind = "CouldNotIncludeInternal"
                      /\ w.path = PathOption(s, "currentPath")

\* C23, the case: a project whose only source is internal://f.txt without a
\* currentPath was exported, with no payload entry and no warning
BareInternalSourceSilent ==
    /\ Succeeded
    /\ InternalSources # {}
    /\ \A s \in InternalSources : ~Has(s, "currentPath")
    /\ outFile.content.files = <<>>
    /\ result.warnings = <<>>


\* the records of the external sources that the pass embedded
EmbeddedExternal ==
    {info \in Range(sourceInfoList) :
        /\ info.sourceType = "internal"
        /\ ~startsWith(AddressOf(original, info.guid), SchemeInternal)}

RewrittenSource(guid) ==
    CHOOSE s \in Range(AllSources(heap[copyRef])) : GuidOf(s) = guid

\* the forms in which the absolute path p can be written
AbsoluteForms(p) == {p, <<SchemeAbsolute>> \o p, <<SchemeAbsolute, Sep>> \o p}

\* C24: for every external source that the pass embeds, the exported project
\* has path internal://N with N a fresh identifier followed by the file's
\* extension, the file set holds the file's bytes under sources/N, and
\* currentPath is the absolute path the bytes were read from, whether or not
\* the source had a currentPath before.
EmbeddedSourceRewritten ==
    Repackaged
    => \A info \in EmbeddedExternal :
          /\ \E n \in 1..uuidCount :
                /\ info.filename = <<Uuid(n)>> \o pathExtname(info.originalPath)
                /\ RewrittenSource(info.guid).path = <<SchemeInternal>> \o info.filename
          /\ \E f \in Range(sourceFiles) :
                /\ f.name = <<"sources/">> \o info.filename
                /\ f.from = FsKey(info.originalPath)
          /\ Has(RewrittenSource(info.guid), "currentPath")
          /\ RewrittenSource(info.guid).currentPath \in AbsoluteForms(info.originalPath)

\* C24, the case: an audio source without a currentPath was embedded and
\* exported, and still has no currentPath
EmbeddedWithoutCurrentPath ==
    /\ Succeeded
    /\ \E info \in EmbeddedExternal :
          /\ ~Has(CHOOSE s \in Range(AllSources(original)) : GuidOf(s) = info.guid,
                  "currentPath")
          /\ RewrittenSource(info.guid).path = <<SchemeInternal>> \o info.filename
          /\ ~Has(RewrittenSource(info.guid), "currentPath")


\* the records of the sources kept external whose file exists
KeptExternalInfos ==
    {info \in Range(sourceInfoList) :
        /\ info.sourceType \in {"absolute", "relative"}
        /\ info.originalPath \in Range(externalSources)}

\* the packaging pass and the rewrite run once more on the rewritten project
SecondPass == processSourcesForExport(heap[copyRef], exportOptions, fsFiles)
SecondRewrite == updateProjectSourcePaths(heap[copyRef], SecondPass.sourceInfoList)

\* C25: the address written for a source kept external is a fixed point of
\* the packaging pass: processSourcesForExport and updateProjectSourcePaths
\* run again on the rewritten project, with the same options and files,
\* resolve the source to the same file and leave its path unchanged, for
\* absolute:// and relative:// addresses alike.
ExternalAddressIsFixedPoint ==
    Repackaged
    => \A info \in KeptExternalInfos :
          /\ \E again \in Range(SecondPass.sourceInfoList) :
                /\ again.guid = info.guid
                /\ FsKey(again.originalPath) = FsKey(info.originalPath)
          /\ AddressOf(SecondRewrite, info.guid) = AddressOf(heap[copyRef], info.guid)

\* C25, the case: an absolute:// source was kept external and exported, and
\* a second pass writes another path for it
AbsoluteAddressGrows ==
    /\ Succeeded
    /\ \E info \in KeptExternalInfos :
          /\ info.sourceType = "absolute"
          /\ AddressOf(heap[copyRef], info.guid) = <<SchemeAbsolute, Sep>> \o info.originalPath
          /\ AddressOf(SecondRewrite, info.guid)
                = <<SchemeAbsolute, Sep, Sep>> \o info.originalPath


\* the sources of the written manifest whose path is internal://N for the
\* payload entry sources/N, by their position
ManifestOwners(entry) ==
    {i \in 1..Len(AllSources(WrittenProject)) :
        LET s == AllSources(WrittenProject)[i]
        IN /\ TruthyPath(s, "path")
           /\ startsWith(s.path, SchemeInternal)
           /\ <<"sources/">> \o substring(s.path, 11) = entry.name}

\* C26: in every container written by exportQDPX each payload entry
\* sources/N belongs to exactly one source of the written manifest, whose
\* path is internal://N; this holds for all five kinds of source, a
\* TextSource that carries a path included.
NoOrphanPayload ==
    Succeeded
    => \A entry \in Range(outFile.content.files) : Cardinality(ManifestOwners(entry)) = 1

\* C26, the case: a text source with a path was embedded and the written
\* manifest names no source for its payload entry
TextSourcePayloadOrphaned ==
    /\ Succeeded
    /\ Len(AllSources(original)) = 1
    /\ Has(original.Sources, "TextSource")
    /\ Len(outFile.content.files) = 1
    /\ ManifestOwners(outFile.content.files[1]) = {}


WrittenSource(guid) ==
    CHOOSE s \in Range(AllSources(WrittenProject)) : GuidOf(s) = guid

\* C27: for a source whose address is already internal://, an export leaves
\* its currentPath as it was: the currentPath in the written manifest equals
\* the one of the input project, so that exporting an exported project does
\* not change it.
InternalCurrentPathUnchanged ==
    Succeeded
    => \A s \in InternalSources :
          /\ Has(WrittenSource(s.guid), "currentPath") <=> Has(s, "currentPath")
          /\ Has(s, "currentPath") => WrittenSource(s.guid).currentPath = s.currentPath

\* C27, the case: an internal source with a currentPath was exported and the
\* manifest holds the currentPath with a second scheme in front
InternalCurrentPathPrefixed ==
    /\ Succeeded
    /\ \E s \in InternalSources :
          /\ Has(s, "currentPath")
          /\ startsWith(s.currentPath, SchemeAbsolute)
          /\ WrittenSource(s.guid).currentPath = <<SchemeAbsolute, Sep>> \o s.currentPath


-----------------------------------------------------------------------------
(* Two exportQDPX calls on one Project and one output path, which does not  *)
(* exist when they start (options.ts:114-117, 132-142; part_004:50-55).     *)
(* The file at the output path is shared; the calls' locals are their own.  *)

SameOptions ==
    << [validateBeforeExport |-> FALSE],
       [validateBeforeExport |-> FALSE, overwrite |-> FALSE,
        includeExternalSources |-> TRUE] >>

SameInputs ==
    {[A |-> SameOptions[ij[1]], B |-> SameOptions[ij[2]]] :
        ij \in {x \in (DOMAIN SameOptions) \X (DOMAIN SameOptions) : x[1] <= x[2]}}

InitSame ==
    /\ original \in PairProjects
    /\ projectRef = CallerRef
    /\ heap = (CallerRef :> original)
    /\ fsFiles = (<<"base", "a.mp4">> :> 1) @@ (<<"base", "f.txt">> :> 1)
    /\ copyRef = CallerRef
    /\ options = NoFields
    /\ exportOptions = NoFields
    /\ outFile = Absent
    /\ pc = "shared"
    /\ idx = 1
    /\ EmptyPass
    /\ qdeContent = [threw |-> TRUE]
    /\ result = Pending
    /\ done = <<>>
    /\ missing = <<>>
    /\ valInput \in SameInputs
    /\ valOutput = [k \in Calls |-> NewCall(valInput[k])]

\* call k runs up to its next await; it sees and writes the shared file
StepShared(k) ==
    /\ pc = "shared"
    /\ valOutput[k].pc # "done"
    /\ \E ok \in BOOLEAN :
          LET n == exportStep([valOutput[k] EXCEPT !.out = outFile], heap, fsFiles, ok)
          IN /\ valOutput' = [valOutput EXCEPT ![k] = n.call]
             /\ heap' = n.heap
             /\ outFile' = n.call.out
             /\ done' = IF n.call.out # outFile THEN Append(done, k) ELSE done
    /\ UNCHANGED <<projectRef, copyRef, original, options, exportOptions, fsFiles,
                   pc, idx, warnings, externalSources, sourceFiles,
                   sourceInfoList, uuidCount, qdeContent, result, missing, valInput>>

StepSharedA == StepShared("A")
StepSharedB == StepShared("B")

NextSame == StepSharedA \/ StepSharedB

SpecSame == InitSame /\ [][NextSame]_vars

CallSucceeded(k) == valOutput[k].pc = "done" /\ valOutput[k].result.status = "success"

\* C28: with overwrite false, two concurrent exportQDPX calls on the same,
\* initially absent output path cannot both succeed: at most one writes the
\* file and the other fails with ExportError, so a written container is
\* never replaced by the other call.
AtMostOneExportWrites ==
    pc = "shared"
    => /\ ~(CallSucceeded("A") /\ CallSucceeded("B"))
       /\ \A k \in Calls :
             "write" \in Range(valOutput[k].stages)
             => \A other \in Calls \ {k} : "write" \notin Range(valOutput[other].stages)

\* C28, the case: both calls passed the check while the file was absent,
\* both wrote, and the file holds what call B wrote over call A's container
BothExportsWroteSameFile ==
    /\ pc = "shared"
    /\ CallSucceeded("A") /\ CallSucceeded("B")
    /\ ~Has(valInput["A"], "overwrite") /\ Has(valInput["B"], "overwrite")
    /\ valOutput["A"].out # valOutput["B"].out
    /\ outFile = valOutput["B"].out


-----------------------------------------------------------------------------
(* importQDPX (part_002:25-75) with extractQDPXFile and extractSourceFiles  *)
(* (extract.ts:35-88) on bounded containers. The call's position and locals *)
(* are held in valOutput, the files written to the sources directory in     *)
(* written and outDir.                                                      *)

\* the entries a container is assembled from, in the order of zip.files
AllEntries ==
    << [name |-> <<"sources/">>, dir |-> TRUE, bytes |-> 0],
       [name |-> <<"sources/", "f.txt">>, dir |-> FALSE, bytes |-> 1],
       [name |-> <<"sources/", "a", Sep>>, dir |-> TRUE, bytes |-> 0],
       [name |-> <<"sources/", "a", Sep, "f.txt">>, dir |-> FALSE, bytes |-> 2],
       [name |-> <<"sources/", "b.pdf">>, dir |-> FALSE, bytes |-> 3],
       [name |-> <<"notes", Sep, "f.txt">>, dir |-> FALSE, bytes |-> 4] >>

EntriesOf(chosen) ==
    LET picked == SelectSeq([i \in 1..Len(AllEntries) |-> i], LAMBDA i : i \in chosen)
    IN [k \in 1..Len(picked) |-> AllEntries[picked[k]]]

\* what project.qde holds: a manifest, text that is not XML, or no entry
ManifestOf(kind) ==
    CASE kind = "valid" -> Document(P1Manifest)
      [] kind = "unparsable" -> [malformed |-> TRUE]
      [] kind = "absent" -> NoFields

Containers ==
    [exists : BOOLEAN, readable : BOOLEAN, manifest : {"valid", "unparsable", "absent"},
     entries : {EntriesOf(c) : c \in SUBSET (1..Len(AllEntries))}]

UnpackOptions ==
    {a @@ b : a \in OptionChoices("validateSchema", {FALSE}),
              b \in OptionChoices("extractInternalSources", {FALSE})}

\* the verdict of validateProjectAgainstSchema: it depends on the schema file
\* and on libraries outside the repository
SchemaVerdicts == {"valid", "issue", "throws"}

\* filename.startsWith("sources/") && !filename.endsWith("/")
IsPayloadName(name) == name[1] = "sources/" /\ Last(name) \notin {"sources/", Sep}

\* extractQDPXFile(qdpxFilePath)
extractQDPXFile(container) ==
    IF ~container.readable
    THEN [threw |-> TRUE, error |-> "InvalidQDPXFileError"]
    ELSE IF container.manifest = "absent"
    THEN [threw |-> TRUE, error |-> "InvalidQDPXFileError"]
    ELSE [threw |-> FALSE,
          qdeContent |-> ManifestOf(container.manifest),
          sourceFiles |-> SelectSeq(container.entries, LAMBDA e : IsPayloadName(e.name))]

\* the file extractSourceFiles writes an entry to: join(outputDirectory,
\* path.basename(filename))
OutputNameOf(entry) == pathBasename(Tail(entry.name))

\* the variant in which the sources are written before the schema is checked
ImportStageWriteFirst(stage) ==
    CASE stage = "start" -> "extract"
      [] stage = "extract" -> "parse"
      [] stage = "parse" -> "sources"
      [] stage = "sources" -> "validate"
      [] stage = "validate" -> "resolve"
      [] stage = "resolve" -> "done"

\* the statement order of importQDPX
ImportStageAfter(stage) ==
    CASE stage = "start" -> "extract"
      [] stage = "extract" -> "parse"
      [] stage = "parse" -> "validate"
      [] stage = "validate" -> "sources"
      [] stage = "sources" -> "resolve"
      [] stage = "resolve" -> "done"

ImportState == valOutput

ImportAdvance(st) ==
    [st EXCEPT !.pc = ImportStageAfter(st.pc), !.stages = Append(st.stages, st.pc)]

ImportThrow(st, error) ==
    [st EXCEPT !.pc = "done", !.result = [threw |-> TRUE, error |-> error, at |-> st.pc]]

InitUnpack ==
    /\ IdleExport
    /\ valInput \in [container : Containers, options : UnpackOptions]
    /\ valOutput = [done |-> FALSE, pc |-> "start", stages |-> <<>>, idx |-> 1,
                    qdeContent |-> NoFields, sourceFiles |-> <<>>, project |-> NoFields,
                    written |-> <<>>, outDir |-> NoFields, result |-> [threw |-> FALSE]]

ImportFrame == UNCHANGED <<valInput, exportVars>>

\* line 27
ImportStart ==
    /\ valOutput.pc = "start"
    /\ valOutput' = IF ~valInput.container.exists
                    THEN ImportThrow(valOutput, "QDPXFileNotFoundError")
                    ELSE ImportAdvance(valOutput)
    /\ ImportFrame

\* line 33
ImportExtract ==
    /\ valOutput.pc = "extract"
    /\ LET x == extractQDPXFile(valInput.container)
       IN valOutput' = IF x.threw THEN ImportThrow(valOutput, x.error)
                       ELSE [ImportAdvance(valOutput) EXCEPT
                                !.qdeContent = x.qdeContent, !.sourceFiles = x.sourceFiles]
    /\ ImportFrame

\* line 36
ImportParse ==
    /\ valOutput.pc = "parse"
    /\ LET p == parseQDEFileOutcome(valOutput.qdeContent)
       IN valOutput' = IF p.threw THEN ImportThrow(valOutput, p.error)
                       ELSE [ImportAdvance(valOutput) EXCEPT !.project = p.project]
    /\ ImportFrame

\* lines 39-44; a ValidationError is wrapped by the catch at lines 69-74
ImportValidate ==
    /\ valOutput.pc = "validate"
    /\ \E verdict \in SchemaVerdicts :
          valOutput' =
              IF Has(valInput.options, "validateSchema") \/ verdict = "valid"
              THEN ImportAdvance(valOutput)
              ELSE ImportThrow(valOutput, "InvalidQDPXFileError")
    /\ ImportFrame

\* one iteration of the loop of extractSourceFiles (extract.ts:81-87)
ImportWriteSource ==
    /\ valOutput.pc = "sources"
    /\ ~Has(valInput.options, "extractInternalSources")
    /\ valOutput.idx <= Len(valOutput.sourceFiles)
    /\ LET entry == valOutput.sourceFiles[valOutput.idx]
       IN valOutput' = [valOutput EXCEPT
                           !.idx = @ + 1,
                           !.written = Append(@, entry.name),
                           !.outDir = (OutputNameOf(entry) :> entry.bytes) @@ @]
    /\ ImportFrame

\* extractSourceFiles returns, or is skipped (line 50)
ImportSourcesDone ==
    /\ valOutput.pc = "sources"
    /\ \/ Has(valInput.options, "extractInternalSources")
       \/ valOutput.idx > Len(valOutput.sourceFiles)
    /\ valOutput' = ImportAdvance(valOutput)
    /\ ImportFrame

\* lines 54-68; resolveExternalSources is not requested
ImportReturn ==
    /\ valOutput.pc = "resolve"
    /\ valOutput' = [ImportAdvance(valOutput) EXCEPT
                        !.done = TRUE,
                        !.result = [threw |-> FALSE,
                                    missingExternalSources |->
                                        importExternalCheck(valOutput.project,
                                                            valInput.options,
                                                            NoFields).missingExternalSources]]
    /\ ImportFrame

NextUnpack ==
    \/ ImportStart
    \/ ImportExtract
    \/ ImportParse
    \/ ImportValidate
    \/ ImportWriteSource
    \/ ImportSourcesDone
    \/ ImportReturn

SpecUnpack == InitUnpack /\ [][NextUnpack]_vars

\* C29: in every execution of importQDPX, container extraction, manifest
\* parsing and (unless validateSchema is false) schema validation complete
\* before any embedded source file is written to the sources directory; when
\* the container is invalid, the manifest does not parse or validation
\* reports an issue, the import throws and no source file has been written.
SourcesWrittenAfterChecks ==
    /\ valOutput.written # <<>>
       => /\ Len(valOutput.stages) >= 4
          /\ SubSeq(valOutput.stages, 1, 4) = <<"start", "extract", "parse", "validate">>
    /\ (valOutput.pc = "done" /\ valOutput.result.threw)
       => /\ valOutput.written = <<>>
          /\ valOutput.outDir = NoFields
    /\ valOutput.written # <<>>
       => /\ valInput.container.exists /\ valInput.container.readable
          /\ valInput.container.manifest = "valid"

\* C29, the case: an import with schema validation wrote a source file
SourceWrittenAfterValidation ==
    /\ valOutput.done
    /\ ~Has(valInput.options, "validateSchema")
    /\ valOutput.written # <<>>

\* C30: extraction of embedded sources is one-to-one: extractQDPXFile returns
\* exactly the non-directory entries under "sources/", and extractSourceFiles
\* writes each of them to its own file, so that afterwards the number of
\* files written equals the number of payload entries and no entry's bytes
\* are overwritten by another's, also for entries in nested folders that
\* share a basename.
ExtractionOneToOne ==
    /\ valOutput.pc \in {"parse", "validate", "sources", "resolve"} \/ valOutput.done
       => valOutput.sourceFiles
             = SelectSeq(valInput.container.entries,
                         LAMBDA e : ~e.dir /\ e.name[1] = "sources/")
    /\ (valOutput.done /\ ~Has(valInput.options, "extractInternalSources"))
       => /\ Cardinality(DOMAIN valOutput.outDir) = Len(valOutput.sourceFiles)
          /\ \A i \in 1..Len(valOutput.sourceFiles) :
                valOutput.outDir[OutputNameOf(valOutput.sourceFiles[i])]
                    = valOutput.sourceFiles[i].bytes

\* C30, the case: sources/f.txt and sources/a/f.txt were both extracted and
\* one file holds the bytes of the second
NestedEntryOverwrote ==
    /\ valOutput.done
    /\ Len(valOutput.written) = 2
    /\ valOutput.written[1] = <<"sources/", "f.txt">>
    /\ valOutput.written[2] = <<"sources/", "a", Sep, "f.txt">>
    /\ DOMAIN valOutput.outDir = {<<"f.txt">>}
    /\ valOutput.outDir[<<"f.txt">>] = 2

=============================================================================
